---------------------------- MODULE Spec2Model ----------------------------
(***************************************************************************)
(* Signal syscalls of the library OS (rt_sigaction, rt_sigreturn,          *)
(* rt_sigprocmask, sigaltstack, rt_sigsuspend, rt_sigtimedwait,            *)
(* rt_sigpending, kill, tkill, tgkill) as a state machine.                 *)
(*                                                                         *)
(* A signal set (__sigset_t) is the set of the signal numbers whose bit is *)
(* set.  A user pointer is modelled by what the memory validator answers   *)
(* for it ("null", "rw", "ro", "none") together with the value it points   *)
(* to.  Every thread has a program position pc[t], the locals of the       *)
(* syscall it is in (loc[t]) and the record of the last syscall it         *)
(* completed (ret[t]): arguments, return value and user-visible outputs.   *)
(***************************************************************************)
EXTENDS Integers, FiniteSets, Sequences, TLC

(***************************************************************************)
(* Bounds of the model.                                                    *)
(***************************************************************************)
\* Number of thread ids the model knows; the live threads are a prefix.
NumThreads == 2
\* The catchable signals the model posts and masks are 1..NumUserSigs.
NumUserSigs == 2

(***************************************************************************)
(* Program constants.                                                      *)
(***************************************************************************)
SIGKILL == 9
SIGSTOP == 19
SIGS_CNT == 64
SIGSET_SIZE == 8
SIG_BLOCK == 0
SIG_UNBLOCK == 1
SIG_SETMASK == 2
MINSIGSTKSZ == 2048
SS_ONSTACK == 1
SS_DISABLE == 2
SA_RESTORER == 67108864
SI_USER == 0
SI_TKILL == -6
EPERM == 1
ESRCH == 3
EINTR == 4
EAGAIN == 11
ENOMEM == 12
EFAULT == 14
EINVAL == 22
ENOSYS == 38
ETIMEDOUT == 110
INT_MIN == -2147483647 - 1
TIME_NS_IN_S == 1000000000

Tids == 1..NumThreads

\* The IPC worker: an internal thread of the process.  It makes no syscall,
\* it calls do_kill_proc, do_kill_pgroup and do_kill_thread for the process
\* that sent the request, and it is not on the thread list, so that no
\* lookup and no walk finds it.
IpcWorker == NumThreads + 1
UserSigs == 1..NumUserSigs
AllSigs == 1..SIGS_CNT
IllegalSigs == {SIGKILL, SIGSTOP}

\* Handler values of a disposition: the two sentinels and handler addresses.
SIG_DFL == 0
SIG_IGN == 1

(***************************************************************************)
(* Signal-set primitives.                                                  *)
(***************************************************************************)
__sigorset(left, right) == left \cup right
__signotset(left, right) == left \ right
__sigandset(left, right) == left \cap right
__sigismember(set, sig) == sig \in set
__sigdelset(set, sig) == set \ {sig}
__sigfillset == AllSigs

clear_illegal_signals(set) == __sigdelset(__sigdelset(set, SIGKILL), SIGSTOP)

\* What the user-memory validator answers for a pointer.
is_user_memory_readable(p) == p \in {"rw", "ro"}
is_user_memory_writable(p) == p \in {"rw"}

NullPtr == [p |-> "null", v |-> {}]
SetPtr(S) == [p |-> "rw", v |-> S]
BadPtr == [p |-> "none", v |-> {}]

VARIABLES
    threads,          \* tids of the live threads of the process
    signal_mask,      \* signal_mask[t]: the signals thread t blocks
    signal_altstack,  \* signal_altstack[t]: the thread's stack_t
    actions,          \* the process's disposition table, actions[sig]
    disp_lock,        \* holder of signal_dispositions->lock, 0 when free
    proc_pending,     \* process-wide pending signals (siginfo records)
    thr_pending,      \* thr_pending[t]: signals pending for thread t
    event,            \* event[t]: the thread's scheduler event is set
    ref_count,        \* ref_count[t]: references held on the thread object
    pc,               \* pc[t]: where thread t is
    loc,              \* loc[t]: locals of the syscall thread t is in
    ret               \* ret[t]: the last syscall thread t completed

vars == <<threads, signal_mask, signal_altstack, actions, disp_lock,
          proc_pending, thr_pending, event, ref_count, pc, loc, ret>>

NoCall == [op |-> "none"]
NoLoc == [op |-> "none"]
NoTmp == [k |-> "none"]

PrevOther == [k |-> "other", set |-> {}]

\* Summary of a thread's last completed call, carried into its next call:
\* whether that call was a successful rt_sigprocmask(SIG_SETMASK, set) and
\* with which set.
PrevSummary(r) ==
    IF r.op = "rt_sigprocmask" /\ r.ret = 0 /\ r.how = SIG_SETMASK /\ r.set.p # "null"
    THEN [k |-> "setmask", set |-> r.set.v]
    ELSE PrevOther

\* The threads that run code of the process.
Callers == threads \cup {IpcWorker}

\* The IPC worker takes a request, with arguments drawn from Calls.
EnterWorker(t, Calls) ==
    /\ t = IpcWorker
    /\ pc[t] = "run"
    /\ \E c \in Calls :
         /\ pc' = [pc EXCEPT ![t] = "enter"]
         /\ loc' = [loc EXCEPT ![t] = [op |-> c.op, a |-> c, prev |-> PrevSummary(ret[t]),
                                       tmp |-> NoTmp]]
    /\ ret' = [ret EXCEPT ![t] = NoCall]
    /\ UNCHANGED <<threads, signal_mask, signal_altstack, actions, disp_lock,
                   proc_pending, thr_pending, event, ref_count>>

\* A thread in user mode enters a syscall with arguments drawn from Calls.
Enter(t, Calls) ==
    /\ t \in threads
    /\ pc[t] = "run"
    /\ \E c \in Calls :
         /\ pc' = [pc EXCEPT ![t] = "enter"]
         /\ loc' = [loc EXCEPT ![t] = [op |-> c.op, a |-> c, prev |-> PrevSummary(ret[t]),
                                       tmp |-> NoTmp]]
    /\ ret' = [ret EXCEPT ![t] = NoCall]
    /\ UNCHANGED <<threads, signal_mask, signal_altstack, actions, disp_lock,
                   proc_pending, thr_pending, event, ref_count>>

\* The syscall of thread t returns with record r.
Return(t, r) ==
    /\ pc' = [pc EXCEPT ![t] = "run"]
    /\ loc' = [loc EXCEPT ![t] = NoLoc]
    /\ ret' = [ret EXCEPT ![t] = r]

\* The syscall of thread t takes a memory fault inside the library OS.
Fault(t, r) ==
    /\ pc' = [pc EXCEPT ![t] = "fault"]
    /\ loc' = [loc EXCEPT ![t] = NoLoc]
    /\ ret' = [ret EXCEPT ![t] = r]

InCall(t, op) == t \in threads /\ pc[t] = "enter" /\ loc[t].op = op

\* The IPC worker is at the entry of op.
InWorkerCall(t, op) == t = IpcWorker /\ pc[t] = "enter" /\ loc[t].op = op

(***************************************************************************)
(* rt_sigprocmask                                                          *)
(***************************************************************************)
get_sig_mask(mask) == mask

sigprocmask_new_mask_noclear(old, how, set) ==
    CASE how = SIG_BLOCK -> __sigorset(old, set)
      [] how = SIG_UNBLOCK -> __signotset(old, set)
      [] how = SIG_SETMASK -> set

sigprocmask_new_mask_unblock_and(old, how, set) ==
    clear_illegal_signals(
        CASE how = SIG_BLOCK -> __sigorset(old, set)
          [] how = SIG_UNBLOCK -> __sigandset(old, set)
          [] how = SIG_SETMASK -> set)

\* The mask the switch on `how` computes and clear_illegal_signals filters.
sigprocmask_new_mask(old, how, set) ==
    clear_illegal_signals(
        CASE how = SIG_BLOCK -> __sigorset(old, set)
          [] how = SIG_UNBLOCK -> __signotset(old, set)
          [] how = SIG_SETMASK -> set)

\* Outcome of one call on current mask cur: whether the store through oldset
\* faults (oldset passed the readable check but is not writable), the return
\* value, the thread's mask afterwards and what was stored through oldset.
rt_sigprocmask(cur, how, set, oldset, sigsetsize) ==
    LET res(f, r, m, w, o) ==
            [fault |-> f, ret |-> r, mask |-> m, wrote |-> w, oldout |-> o]
        fail(e) == res(FALSE, -e, cur, FALSE, {})
        old == get_sig_mask(cur)
    IN  IF sigsetsize # SIGSET_SIZE THEN fail(EINVAL)
        ELSE IF how \notin {SIG_BLOCK, SIG_UNBLOCK, SIG_SETMASK} THEN fail(EINVAL)
        ELSE IF set.p # "null" /\ ~is_user_memory_readable(set.p) THEN fail(EFAULT)
        ELSE IF oldset # "null" /\ ~is_user_memory_readable(oldset) THEN fail(EFAULT)
        ELSE IF oldset # "null" /\ ~is_user_memory_writable(oldset)
             THEN res(TRUE, 0, cur, FALSE, {})
        ELSE res(FALSE, 0,
                 IF set.p = "null" THEN cur ELSE sigprocmask_new_mask(old, how, set.v),
                 oldset # "null",
                 IF oldset # "null" THEN old ELSE {})

SigprocmaskFault == [op |-> "fault", in |-> "rt_sigprocmask"]

libos_syscall_rt_sigprocmask(t) ==
    /\ InCall(t, "rt_sigprocmask")
    /\ LET a == loc[t].a
           r == rt_sigprocmask(signal_mask[t], a.how, a.set, a.oldset, a.sigsetsize)
           rec == [op |-> "rt_sigprocmask", how |-> a.how, set |-> a.set,
                   oldset |-> a.oldset, sigsetsize |-> a.sigsetsize,
                   before |-> signal_mask[t], prev |-> loc[t].prev,
                   ret |-> r.ret, wrote |-> r.wrote, oldout |-> r.oldout]
       IN  /\ signal_mask' = [signal_mask EXCEPT ![t] = r.mask]
           /\ IF r.fault
              THEN Fault(t, SigprocmaskFault)
              ELSE Return(t, rec)
    /\ UNCHANGED <<threads, signal_altstack, actions, disp_lock, proc_pending,
                   thr_pending, event, ref_count>>

(***************************************************************************)
(* rt_sigreturn                                                            *)
(***************************************************************************)
sigreturn_mask_noclear(frame_mask) == frame_mask

\* The mask restore_sigreturn_context reads from the signal frame, filtered.
sigreturn_mask(frame_mask) == clear_illegal_signals(frame_mask)

\* The return value is the restored context's, not a syscall result.
libos_syscall_rt_sigreturn(t) ==
    /\ InCall(t, "rt_sigreturn")
    /\ signal_mask' = [signal_mask EXCEPT ![t] = sigreturn_mask(loc[t].a.frame_mask)]
    /\ Return(t, [op |-> "rt_sigreturn", frame_mask |-> loc[t].a.frame_mask])
    /\ UNCHANGED <<threads, signal_altstack, actions, disp_lock, proc_pending,
                   thr_pending, event, ref_count>>

(***************************************************************************)
(* sigaltstack                                                             *)
(***************************************************************************)
NoStack == [ss_sp |-> 0, ss_size |-> 0, ss_flags |-> {}]
DisabledStack == [ss_sp |-> 0, ss_size |-> 0, ss_flags |-> {SS_DISABLE}]

is_on_altstack(sp, stack) ==
    stack.ss_sp < sp /\ sp <= stack.ss_sp + stack.ss_size

sigaltstack_min_size_unchecked(size) == FALSE

\* The size test of the enabling branch.
sigaltstack_too_small(size) == size < MINSIGSTKSZ

sigaltstack_on_stack_never(cur_ss, sp) == FALSE

\* Whether the thread runs on its enabled alternate stack.
sigaltstack_on_stack(cur_ss, sp) ==
    SS_DISABLE \notin cur_ss.ss_flags /\ is_on_altstack(sp, cur_ss)

\* Outcome of one call: return value, the descriptor afterwards and what was
\* stored through oss (stored before the EPERM and ENOMEM returns).
sigaltstack(cur_ss, sp, ss, oss) ==
    LET res(r, c, w, o) == [ret |-> r, cur_ss |-> c, wrote |-> w, oss |-> o]
        o1 == IF cur_ss.ss_size = 0
              THEN [cur_ss EXCEPT !.ss_flags = @ \cup {SS_DISABLE}]
              ELSE cur_ss
        on == sigaltstack_on_stack(cur_ss, sp)
        o2 == IF oss = "null" THEN NoStack
              ELSE IF on THEN [o1 EXCEPT !.ss_flags = @ \cup {SS_ONSTACK}]
              ELSE o1
        w == oss # "null"
    IN  IF ss.p # "null" /\ ~is_user_memory_readable(ss.p)
        THEN res(-EFAULT, cur_ss, FALSE, NoStack)
        ELSE IF oss # "null" /\ ~is_user_memory_writable(oss)
        THEN res(-EFAULT, cur_ss, FALSE, NoStack)
        ELSE IF ss.p # "null" /\ (ss.v.ss_flags \ {SS_DISABLE}) # {}
        THEN res(-EINVAL, cur_ss, FALSE, NoStack)
        ELSE IF on /\ ss.p # "null" THEN res(-EPERM, cur_ss, w, o2)
        ELSE IF ss.p = "null" THEN res(0, cur_ss, w, o2)
        ELSE IF SS_DISABLE \in ss.v.ss_flags THEN res(0, DisabledStack, w, o2)
        ELSE IF sigaltstack_too_small(ss.v.ss_size) THEN res(-ENOMEM, cur_ss, w, o2)
        ELSE res(0, ss.v, w, o2)

libos_syscall_sigaltstack(t) ==
    /\ InCall(t, "sigaltstack")
    /\ LET a == loc[t].a
           r == sigaltstack(signal_altstack[t], a.sp, a.ss, a.oss)
       IN  /\ signal_altstack' = [signal_altstack EXCEPT ![t] = r.cur_ss]
           /\ Return(t, [op |-> "sigaltstack", ss |-> a.ss, oss |-> a.oss, sp |-> a.sp,
                         before |-> signal_altstack[t], ret |-> r.ret,
                         wrote |-> r.wrote, oss_out |-> r.oss])
    /\ UNCHANGED <<threads, signal_mask, actions, disp_lock, proc_pending,
                   thr_pending, event, ref_count>>

(***************************************************************************)
(* rt_sigaction                                                            *)
(***************************************************************************)
DefaultAction == [k_sa_handler |-> SIG_DFL, sa_flags |-> {}, sa_mask |-> {}]
NoAction == [k_sa_handler |-> -1, sa_flags |-> {}, sa_mask |-> {}]
NullAct == [p |-> "null", v |-> NoAction]

sigaction_signum_invalid_nostop(signum) ==
    signum = SIGKILL \/ signum <= 0 \/ signum > SIGS_CNT

\* SIGKILL and SIGSTOP cannot be caught or ignored; the number must be in range.
sigaction_signum_invalid(signum) ==
    signum = SIGKILL \/ signum = SIGSTOP \/ signum <= 0 \/ signum > SIGS_CNT

\* The checks made before the table is touched: 0 or the negative error.
rt_sigaction_check(signum, act, oldact, sigsetsize) ==
    IF sigaction_signum_invalid(signum) \/ sigsetsize # SIGSET_SIZE THEN -EINVAL
    ELSE IF act.p # "null" /\ ~is_user_memory_readable(act.p) THEN -EFAULT
    ELSE IF oldact # "null" /\ ~is_user_memory_writable(oldact) THEN -EFAULT
    ELSE IF act.p # "null" /\ SA_RESTORER \notin act.v.sa_flags THEN -EINVAL
    ELSE 0

lock_not_taken(holder) == TRUE

\* lock() proceeds only when nobody holds the lock.
lock_available(holder) == holder = 0

SigactionRec(t, r, old) ==
    [op |-> "rt_sigaction", signum |-> loc[t].a.signum, act |-> loc[t].a.act,
     oldact |-> loc[t].a.oldact, sigsetsize |-> loc[t].a.sigsetsize,
     ret |-> r, oldout |-> old]

SigactionAfterLock(a) ==
    IF a.oldact # "null" THEN "sa_old1"
    ELSE IF a.act.p # "null" THEN "sa_new1" ELSE "sa_clear"

SigactionAfterOld(a) == IF a.act.p # "null" THEN "sa_new1" ELSE "sa_clear"

\* Entry: the argument checks; an error returns at once.
libos_syscall_rt_sigaction(t) ==
    /\ InCall(t, "rt_sigaction")
    /\ LET a == loc[t].a
           e == rt_sigaction_check(a.signum, a.act, a.oldact, a.sigsetsize)
       IN  IF e # 0
           THEN Return(t, SigactionRec(t, e, NoAction))
           ELSE /\ pc' = [pc EXCEPT ![t] = "sa_lock"]
                /\ UNCHANGED <<loc, ret>>
    /\ UNCHANGED <<threads, signal_mask, signal_altstack, actions, disp_lock,
                   proc_pending, thr_pending, event, ref_count>>

\* lock(&cur->signal_dispositions->lock)
rt_sigaction_lock(t) ==
    /\ t \in threads
    /\ pc[t] = "sa_lock"
    /\ lock_available(disp_lock)
    /\ disp_lock' = t
    /\ pc' = [pc EXCEPT ![t] = SigactionAfterLock(loc[t].a)]
    /\ loc' = [loc EXCEPT ![t].tmp = NoAction]
    /\ UNCHANGED <<threads, signal_mask, signal_altstack, actions, proc_pending,
                   thr_pending, event, ref_count, ret>>

\* *oldact = *sigaction, a structure copy: first the handler and the flags,
\* then the mask.
rt_sigaction_copy_old(t) ==
    /\ t \in threads
    /\ pc[t] \in {"sa_old1", "sa_old2"}
    /\ LET cur == actions[loc[t].a.signum]
       IN  IF pc[t] = "sa_old1"
           THEN /\ loc' = [loc EXCEPT ![t].tmp =
                              [@ EXCEPT !.k_sa_handler = cur.k_sa_handler,
                                        !.sa_flags = cur.sa_flags]]
                /\ pc' = [pc EXCEPT ![t] = "sa_old2"]
           ELSE /\ loc' = [loc EXCEPT ![t].tmp = [@ EXCEPT !.sa_mask = cur.sa_mask]]
                /\ pc' = [pc EXCEPT ![t] = SigactionAfterOld(loc[t].a)]
    /\ UNCHANGED <<threads, signal_mask, signal_altstack, actions, disp_lock,
                   proc_pending, thr_pending, event, ref_count, ret>>

\* *sigaction = *act, a structure copy in the same two parts.
rt_sigaction_store_new(t) ==
    /\ t \in threads
    /\ pc[t] \in {"sa_new1", "sa_new2"}
    /\ LET sig == loc[t].a.signum
           new == loc[t].a.act.v
       IN  IF pc[t] = "sa_new1"
           THEN /\ actions' = [actions EXCEPT ![sig] =
                                  [@ EXCEPT !.k_sa_handler = new.k_sa_handler,
                                            !.sa_flags = new.sa_flags]]
                /\ pc' = [pc EXCEPT ![t] = "sa_new2"]
           ELSE /\ actions' = [actions EXCEPT ![sig] = [@ EXCEPT !.sa_mask = new.sa_mask]]
                /\ pc' = [pc EXCEPT ![t] = "sa_clear"]
    /\ UNCHANGED <<threads, signal_mask, signal_altstack, disp_lock, proc_pending,
                   thr_pending, event, ref_count, loc, ret>>

\* clear_illegal_signals(&sigaction->sa_mask)
rt_sigaction_clear(t) ==
    /\ t \in threads
    /\ pc[t] = "sa_clear"
    /\ actions' = [actions EXCEPT ![loc[t].a.signum] =
                      [@ EXCEPT !.sa_mask = clear_illegal_signals(@)]]
    /\ pc' = [pc EXCEPT ![t] = "sa_unlock"]
    /\ UNCHANGED <<threads, signal_mask, signal_altstack, disp_lock, proc_pending,
                   thr_pending, event, ref_count, loc, ret>>

\* unlock(&cur->signal_dispositions->lock); return 0
rt_sigaction_unlock(t) ==
    /\ t \in threads
    /\ pc[t] = "sa_unlock"
    /\ disp_lock' = 0
    /\ Return(t, SigactionRec(t, 0, loc[t].tmp))
    /\ UNCHANGED <<threads, signal_mask, signal_altstack, actions, proc_pending,
                   thr_pending, event, ref_count>>

rt_sigaction_steps(t) ==
    \/ libos_syscall_rt_sigaction(t)
    \/ rt_sigaction_lock(t)
    \/ rt_sigaction_copy_old(t)
    \/ rt_sigaction_store_new(t)
    \/ rt_sigaction_clear(t)
    \/ rt_sigaction_unlock(t)

(***************************************************************************)
(* Pending signals and wake-ups.                                           *)
(*                                                                         *)
(* A pending store holds siginfo records, at most one per signal number    *)
(* (the model posts standard signals only).                                *)
(***************************************************************************)
OwnPid == 100
OwnPgid == 50

SigInfo(sig, sender, code) == [si_signo |-> sig, si_pid |-> sender, si_code |-> code]
NoInfo == SigInfo(0, 0, 0)

SigsOf(store) == {r.si_signo : r \in store}

\* append_signal on one store: a second instance of a standard signal is
\* dropped.
queue_append_signal(store, info) ==
    IF info.si_signo \in SigsOf(store) THEN store ELSE store \cup {info}

\* get_all_pending_signals: what is pending for the thread or process-wide.
get_all_pending_signals(t) == SigsOf(thr_pending[t]) \cup SigsOf(proc_pending)

IgnoredSigs == {s \in AllSigs : actions[s].k_sa_handler = SIG_IGN}

\* The records pop_unblocked_signal may take under mask: the thread's own
\* first, else the process-wide ones.
PopCandidates(t, mask) ==
    LET own == {r \in thr_pending[t] : ~__sigismember(mask, r.si_signo)}
        shared == {r \in proc_pending : ~__sigismember(mask, r.si_signo)}
    IN  {[from |-> "thread", info |-> r] : r \in own}
        \cup {[from |-> "process", info |-> r] :
                r \in {x \in shared : x.si_signo \notin SigsOf(own)}}

\* have_pending_signals: some pending signal is unblocked and not ignored.
have_pending_signals(t) ==
    \E s \in get_all_pending_signals(t) :
        ~__sigismember(signal_mask[t], s) /\ s \notin IgnoredSigs

\* thread_wakeup
thread_wakeup(ev, t) == [ev EXCEPT ![t] = TRUE]

(***************************************************************************)
(* rt_sigpending                                                           *)
(***************************************************************************)
sigpending_blocked_all(pending, mask) == pending

\* We are interested only in blocked signals...
sigpending_blocked(pending, mask) == __sigandset(pending, mask)

sigpending_keep_ignored(set, ignored) == set

\* ...and not ignored.
sigpending_not_ignored(set, ignored) == set \ ignored

\* Entry: the argument checks, then the pending signals that the thread's
\* mask blocks.
libos_syscall_rt_sigpending(t) ==
    /\ InCall(t, "rt_sigpending")
    /\ LET a == loc[t].a
           rec(e) == [op |-> "rt_sigpending", set |-> a.set, ret |-> e, out |-> {},
                      mask |-> signal_mask[t]]
       IN  IF a.sigsetsize # SIGSET_SIZE THEN Return(t, rec(-EINVAL))
           ELSE IF ~is_user_memory_writable(a.set) THEN Return(t, rec(-EFAULT))
           ELSE /\ pc' = [pc EXCEPT ![t] = "sp_ignored"]
                /\ loc' = [loc EXCEPT ![t].tmp =
                              [k |-> "set",
                               set |-> sigpending_blocked(get_all_pending_signals(t),
                                                          signal_mask[t])]]
                /\ UNCHANGED ret
    /\ UNCHANGED <<threads, signal_mask, signal_altstack, actions, disp_lock,
                   proc_pending, thr_pending, event, ref_count>>

\* The loop over the disposition table, under its lock.
rt_sigpending_ignored(t) ==
    /\ t \in threads
    /\ pc[t] = "sp_ignored"
    /\ lock_available(disp_lock)
    /\ Return(t, [op |-> "rt_sigpending", set |-> loc[t].a.set, ret |-> 0,
                  out |-> sigpending_not_ignored(loc[t].tmp.set, IgnoredSigs),
                  mask |-> signal_mask[t]])
    /\ UNCHANGED <<threads, signal_mask, signal_altstack, actions, disp_lock,
                   proc_pending, thr_pending, event, ref_count>>

(***************************************************************************)
(* kill and kill_current_proc                                              *)
(***************************************************************************)
KillRec(t, r) ==
    [op |-> loc[t].op, pid |-> loc[t].a.pid, sig |-> loc[t].a.sig,
     nomem |-> loc[t].a.nomem, sender |-> loc[t].a.sender,
     internal |-> loc[t].a.internal, walk_ret |-> loc[t].a.walk_ret,
     ret |-> r, queued |-> loc[t].tmp.queued, walked |-> loc[t].tmp.walked,
     woke |-> loc[t].tmp.woke, ipc |-> loc[t].tmp.ipc]

kill_sig_invalid_lax(sig) == sig < 0

kill_sig_invalid(sig) == sig < 0 \/ sig > SIGS_CNT

\* We should not negate INT_MIN.
kill_pid_unnegatable(pid) == pid = INT_MIN

do_kill_proc_is_remote_never(pid) == FALSE

\* do_kill_proc: the target is another process.
do_kill_proc_is_remote(pid) == OwnPid # pid

do_kill_pgroup_mismatch_never(pgid) == FALSE

\* do_kill_pgroup: pgid 0 stands for the caller's own group; the target group
\* is not the caller's.
do_kill_pgroup_mismatch(pgid) == OwnPgid # (IF pgid = 0 THEN OwnPgid ELSE pgid)

RouteLocal == [k |-> "local"]

\* do_kill_proc(sender, pid, sig): another process is reached through
\* ipc_kill_process(g_process.pid, pid, sig), this one by kill_current_proc.
do_kill_proc_route(pid, sig) ==
    IF do_kill_proc_is_remote(pid)
    THEN [k |-> "ipc", call |-> <<"ipc_kill_process", OwnPid, pid, sig>>]
    ELSE RouteLocal

\* do_kill_pgroup(sender, pgid, sig): -ENOSYS for a group that is not the
\* caller's, else kill_current_proc.
do_kill_pgroup_route(pgid) ==
    IF do_kill_pgroup_mismatch(pgid) THEN [k |-> "error", e |-> -ENOSYS]
    ELSE RouteLocal

\* Where kill(pid, sig) routes: an error, an IPC call, or local delivery.
kill_route(pid, sig) ==
    IF kill_sig_invalid(sig) THEN [k |-> "error", e |-> -EINVAL]
    ELSE IF kill_pid_unnegatable(pid) THEN [k |-> "error", e |-> -ESRCH]
    ELSE IF pid > 0 THEN do_kill_proc_route(pid, sig)
    ELSE IF pid = -1 THEN [k |-> "ipc", call |-> <<"ipc_kill_all", OwnPid, sig>>]
    ELSE do_kill_pgroup_route(IF pid = 0 THEN 0 ELSE -pid)

KillTmp ==
    [k |-> "kill", queued |-> FALSE, walked |-> FALSE, woke |-> {}, ipc |-> <<>>]

\* The routing of a kill and, for local delivery, the start of
\* kill_current_proc on the record {sig, sender, SI_USER}: nothing for signal
\* 0, else append_signal to the process-wide store, whose failure is
\* returned.
kill_dispatch(t, route) ==
    /\ LET a == loc[t].a
           tmp0 == KillTmp
           done(r, tmp) ==
               /\ pc' = [pc EXCEPT ![t] = "run"]
               /\ loc' = [loc EXCEPT ![t] = NoLoc]
               /\ ret' = [ret EXCEPT ![t] =
                             [op |-> loc[t].op, pid |-> a.pid, sig |-> a.sig,
                              nomem |-> a.nomem, sender |-> a.sender,
                              internal |-> a.internal, walk_ret |-> a.walk_ret,
                              ret |-> r, queued |-> tmp.queued,
                              walked |-> tmp.walked, woke |-> tmp.woke,
                              ipc |-> tmp.ipc]]
               /\ UNCHANGED proc_pending
       IN  CASE route.k = "error" -> done(route.e, tmp0)
             [] route.k = "ipc" -> done(a.ipc_ret, [tmp0 EXCEPT !.ipc = <<route.call>>])
             [] route.k = "local" ->
                  IF a.sig = 0 THEN done(0, tmp0)
                  ELSE IF a.nomem THEN done(-ENOMEM, tmp0)
                  ELSE /\ proc_pending' =
                              queue_append_signal(proc_pending,
                                                  SigInfo(a.sig, a.sender, SI_USER))
                       /\ pc' = [pc EXCEPT ![t] = "kcp_check"]
                       /\ loc' = [loc EXCEPT ![t].tmp = [tmp0 EXCEPT !.queued = TRUE]]
                       /\ UNCHANGED ret
    /\ UNCHANGED <<threads, signal_mask, signal_altstack, actions, disp_lock,
                   thr_pending, event, ref_count>>

\* Entry of kill: the checks and the routing, with the caller's process as
\* sender.
libos_syscall_kill(t) ==
    /\ InCall(t, "kill")
    /\ kill_dispatch(t, kill_route(loc[t].a.pid, loc[t].a.sig))

\* do_kill_proc(sender, pid, sig) called directly, as the IPC worker does for
\* a kill that another process sent.
do_kill_proc(t) ==
    /\ InWorkerCall(t, "do_kill_proc")
    /\ kill_dispatch(t, do_kill_proc_route(loc[t].a.pid, loc[t].a.sig))

\* do_kill_pgroup(sender, pgid, sig) called directly; pid holds pgid.
do_kill_pgroup(t) ==
    /\ InWorkerCall(t, "do_kill_pgroup")
    /\ kill_dispatch(t, do_kill_pgroup_route(loc[t].a.pid))

kcp_can_handle_never(mask, sig) == FALSE

kcp_can_handle_inverted(mask, sig) == __sigismember(mask, sig)

\* Can we handle this signal?  Yes when the caller does not block it.
kcp_can_handle(mask, sig) == ~__sigismember(mask, sig)

\* if (!is_internal(current)): only a caller that is not an internal thread
\* has its own mask tested.
kcp_tests_own_mask(internal) == ~internal

\* kill_current_proc after the append: a caller that is not internal and
\* does not block the signal returns 0 (its mask is read under its lock);
\* every other caller goes on to the walk.
kill_current_proc_check(t) ==
    /\ t \in Callers
    /\ pc[t] = "kcp_check"
    /\ IF /\ kcp_tests_own_mask(loc[t].a.internal)
          /\ kcp_can_handle(signal_mask[t], loc[t].a.sig)
       THEN Return(t, KillRec(t, 0))
       ELSE /\ pc' = [pc EXCEPT ![t] = "kcp_walk"]
            /\ UNCHANGED <<loc, ret>>
    /\ UNCHANGED <<threads, signal_mask, signal_altstack, actions, disp_lock,
                   proc_pending, thr_pending, event, ref_count>>

\* The threads wakeup_one_thread_on_signal accepts: those not blocking sig.
wakeup_targets_any(cur, sig) == threads

\* wakeup_one_thread_on_signal passes over the calling thread.
wakeup_targets(cur, sig) ==
    {u \in threads \ {cur} : ~__sigismember(signal_mask[u], sig)}

kcp_walk_result_strict(walk_ret) == IF walk_ret < 0 THEN walk_ret ELSE 0

\* Ignore -ESRCH as this just means that currently no thread is able to
\* handle the signal.
kcp_walk_result(walk_ret) == IF walk_ret < 0 /\ walk_ret # -ESRCH THEN walk_ret ELSE 0

walk_thread_list_every(targets) == IF targets = {} THEN {} ELSE {targets}

\* walk_thread_list(..., one_shot = true) stops at the first thread the
\* callback accepts: the sets of threads one walk can wake.
walk_thread_list_one_shot(targets) == {{u} : u \in targets}

\* walk_thread_list(wakeup_one_thread_on_signal, sig, one_shot): a walk that
\* fails (walk_ret < 0) wakes nobody and gives its error; otherwise the first
\* accepting thread is woken, and the walk gives -ESRCH when there is none.
kill_current_proc_walk(t) ==
    /\ t \in Callers
    /\ pc[t] = "kcp_walk"
    /\ LET targets == wakeup_targets(t, loc[t].a.sig)
           rec(r) == [KillRec(t, r) EXCEPT !.walked = TRUE]
       IN  IF loc[t].a.walk_ret < 0
           THEN /\ Return(t, rec(kcp_walk_result(loc[t].a.walk_ret)))
                /\ UNCHANGED event
           ELSE IF targets = {}
           THEN /\ Return(t, rec(kcp_walk_result(-ESRCH)))
                /\ UNCHANGED event
           ELSE \E W \in walk_thread_list_one_shot(targets) :
                   /\ event' = [u \in DOMAIN event |->
                                   IF u \in W THEN thread_wakeup(event, u)[u]
                                   ELSE event[u]]
                   /\ pc' = [pc EXCEPT ![t] = "run"]
                   /\ loc' = [loc EXCEPT ![t] = NoLoc]
                   /\ ret' = [ret EXCEPT ![t] =
                                 [rec(kcp_walk_result(0)) EXCEPT !.woke = @ \cup W]]
    /\ UNCHANGED <<threads, signal_mask, signal_altstack, actions, disp_lock,
                   proc_pending, thr_pending, ref_count>>

kill_steps(t) ==
    \/ libos_syscall_kill(t)
    \/ kill_current_proc_check(t)
    \/ kill_current_proc_walk(t)

(***************************************************************************)
(* tkill, tgkill and do_kill_thread                                        *)
(***************************************************************************)
KillThreadRec(t, r) ==
    [op |-> loc[t].op, tgid |-> loc[t].a.tgid, tid |-> loc[t].a.tid,
     sig |-> loc[t].a.sig, sender |-> loc[t].a.sender, ret |-> r, queued |-> loc[t].tmp.queued,
     woke |-> loc[t].tmp.woke, resumed |-> loc[t].tmp.resumed,
     ipc |-> loc[t].tmp.ipc]

\* lookup_thread finds a live thread with that tid (and takes a reference).
lookup_thread(tid) == tid \in threads

do_kill_thread_not_found_never(tid) == FALSE

\* if (!thread) return -ESRCH
do_kill_thread_not_found(tid) == ~lookup_thread(tid)

KillThreadTmp ==
    [k |-> "kt", queued |-> FALSE, woke |-> {}, resumed |-> {}, ipc |-> <<>>, ret |-> 0]

\* do_kill_thread(sender, tgid, tid, sig) up to the lookup; ids_invalid is
\* the syscall's own check of tgid and tid, made before the call.
do_kill_thread_lookup(t, ids_invalid) ==
    /\ LET a == loc[t].a
           tmp0 == KillThreadTmp
           done(r, tmp) ==
               /\ pc' = [pc EXCEPT ![t] = "run"]
               /\ loc' = [loc EXCEPT ![t] = NoLoc]
               /\ ret' = [ret EXCEPT ![t] =
                             [op |-> loc[t].op, tgid |-> a.tgid, tid |-> a.tid,
                              sig |-> a.sig, sender |-> a.sender, ret |-> r,
                              queued |-> FALSE,
                              woke |-> {}, resumed |-> {}, ipc |-> tmp.ipc]]
               /\ UNCHANGED ref_count
       IN  IF ids_invalid THEN done(-EINVAL, tmp0)
           ELSE IF kill_sig_invalid(a.sig) THEN done(-EINVAL, tmp0)
           ELSE IF OwnPid # a.tgid
                THEN done(a.ipc_ret,
                          [tmp0 EXCEPT !.ipc = <<<<"ipc_kill_thread", a.sender, a.tgid, a.tid, a.sig>>>>])
           ELSE IF do_kill_thread_not_found(a.tid) THEN done(-ESRCH, tmp0)
           ELSE /\ ref_count' = [ref_count EXCEPT ![a.tid] = @ + 1]
                /\ pc' = [pc EXCEPT ![t] = "kt_found"]
                /\ loc' = [loc EXCEPT ![t].tmp = tmp0]
                /\ UNCHANGED ret
    /\ UNCHANGED <<threads, signal_mask, signal_altstack, actions, disp_lock,
                   proc_pending, thr_pending, event>>

\* Entry of tkill and tgkill: tgid <= 0 or tid <= 0 is -EINVAL, else
\* do_kill_thread with the caller's process as sender.  tkill passes the
\* caller's own process as tgid.
libos_syscall_tgkill(t) ==
    /\ t \in threads
    /\ pc[t] = "enter"
    /\ loc[t].op \in {"tkill", "tgkill"}
    /\ do_kill_thread_lookup(t, loc[t].a.tgid <= 0 \/ loc[t].a.tid <= 0)

\* do_kill_thread called directly, as the IPC worker does for a tgkill that
\* another process sent.
do_kill_thread(t) ==
    /\ InWorkerCall(t, "do_kill_thread")
    /\ do_kill_thread_lookup(t, FALSE)

do_kill_thread_put_ref_forgotten(rc, tid) == rc

\* put_thread(thread) before each return of do_kill_thread that follows a
\* successful lookup.
do_kill_thread_put_ref(rc, tid) == [rc EXCEPT ![tid] = @ - 1]

do_kill_thread_target_is_other_always(tid, cur) == TRUE

\* if (thread != get_cur_thread())
do_kill_thread_target_is_other(tid, cur) == tid # cur

kill_thread_is_probe_never(sig) == FALSE

\* if (!sig): only the existence of the thread is confirmed.
kill_thread_is_probe(sig) == sig = 0

\* do_kill_thread with the thread found: the probe, or append_signal to the
\* thread's store; a post to the caller itself ends here.
do_kill_thread_found(t) ==
    /\ t \in Callers
    /\ pc[t] = "kt_found"
    /\ LET a == loc[t].a
           put == do_kill_thread_put_ref(ref_count, a.tid)
       IN  IF kill_thread_is_probe(a.sig)
           THEN /\ ref_count' = put
                /\ Return(t, KillThreadRec(t, 0))
                /\ UNCHANGED thr_pending
           ELSE IF a.nomem
           THEN /\ ref_count' = put
                /\ Return(t, KillThreadRec(t, -ENOMEM))
                /\ UNCHANGED thr_pending
           ELSE /\ thr_pending' =
                      [thr_pending EXCEPT ![a.tid] =
                          queue_append_signal(@, SigInfo(a.sig, a.sender, SI_TKILL))]
                /\ IF do_kill_thread_target_is_other(a.tid, t)
                   THEN /\ pc' = [pc EXCEPT ![t] = "kt_wake"]
                        /\ loc' = [loc EXCEPT ![t].tmp.queued = TRUE]
                        /\ UNCHANGED <<ret, ref_count>>
                   ELSE /\ ref_count' = put
                        /\ pc' = [pc EXCEPT ![t] = "run"]
                        /\ loc' = [loc EXCEPT ![t] = NoLoc]
                        /\ ret' = [ret EXCEPT ![t] =
                                      [KillThreadRec(t, 0) EXCEPT !.queued = TRUE]]
    /\ UNCHANGED <<threads, signal_mask, signal_altstack, actions, disp_lock,
                   proc_pending, event>>

\* ret = pal_to_unix_errno(PalThreadResume(thread->pal_handle))
do_kill_thread_resume_result(resume_ret) == resume_ret

\* thread_wakeup(thread); ret = PalThreadResume(thread->pal_handle)
do_kill_thread_wake(t) ==
    /\ t \in Callers
    /\ pc[t] = "kt_wake"
    /\ event' = thread_wakeup(event, loc[t].a.tid)
    /\ pc' = [pc EXCEPT ![t] = "kt_put"]
    /\ loc' = [loc EXCEPT ![t].tmp =
                  [@ EXCEPT !.woke = @ \cup {loc[t].a.tid},
                            !.resumed = @ \cup {loc[t].a.tid},
                            !.ret = do_kill_thread_resume_result(loc[t].a.resume_ret)]]
    /\ UNCHANGED <<threads, signal_mask, signal_altstack, actions, disp_lock,
                   proc_pending, thr_pending, ref_count, ret>>

\* put_thread(thread); return ret
do_kill_thread_put(t) ==
    /\ t \in Callers
    /\ pc[t] = "kt_put"
    /\ ref_count' = do_kill_thread_put_ref(ref_count, loc[t].a.tid)
    /\ Return(t, KillThreadRec(t, loc[t].tmp.ret))
    /\ UNCHANGED <<threads, signal_mask, signal_altstack, actions, disp_lock,
                   proc_pending, thr_pending, event>>

kill_thread_steps(t) ==
    \/ libos_syscall_tgkill(t)
    \/ do_kill_thread_found(t)
    \/ do_kill_thread_wake(t)
    \/ do_kill_thread_put(t)

(***************************************************************************)
(* Waiting: thread_prepare_wait, thread_wait, pop_unblocked_signal.        *)
(***************************************************************************)
\* thread_prepare_wait clears the thread's scheduler event.
thread_prepare_wait(ev, t) == [ev EXCEPT ![t] = FALSE]

\* What thread_wait can return now: 0 when the event is set (the wait
\* consumes it), -ETIMEDOUT when a timeout was given, -EINTR when the host
\* wait is interrupted, and the host failure wait_err if there is one.
WaitOutcomes(t, has_timeout, wait_err) ==
    (IF event[t] THEN {0} ELSE {})
    \cup (IF has_timeout THEN {-ETIMEDOUT} ELSE {})
    \cup {-EINTR}
    \cup (IF wait_err # 0 THEN {wait_err} ELSE {})

PopFrom_keep(t, c) == UNCHANGED <<proc_pending, thr_pending>>

\* pop_unblocked_signal removes record c from the store it is in.
PopFrom(t, c) ==
    IF c.from = "thread"
    THEN /\ thr_pending' = [thr_pending EXCEPT ![t] = @ \ {c.info}]
         /\ UNCHANGED proc_pending
    ELSE /\ proc_pending' = proc_pending \ {c.info}
         /\ UNCHANGED thr_pending

(***************************************************************************)
(* rt_sigsuspend                                                           *)
(***************************************************************************)
user_sigmask_noclear(mask) == mask

\* The mask set_user_sigmask installs.
user_sigmask(mask) == clear_illegal_signals(mask)

SuspendRec(t, r) ==
    [op |-> "rt_sigsuspend", mask |-> loc[t].a.mask, setsize |-> loc[t].a.setsize,
     wait_err |-> loc[t].a.wait_err, ret |-> r, saw |-> loc[t].tmp.saw]

SuspendTmp == [k |-> "ss", saw |-> FALSE]

\* Entry: set_user_sigmask checks the arguments and installs the mask.
libos_syscall_rt_sigsuspend(t) ==
    /\ InCall(t, "rt_sigsuspend")
    /\ LET a == loc[t].a
           tmp0 == SuspendTmp
           fail(e) == /\ Return(t, [op |-> "rt_sigsuspend", mask |-> a.mask,
                                    setsize |-> a.setsize, wait_err |-> a.wait_err,
                                    ret |-> e, saw |-> FALSE])
                      /\ UNCHANGED signal_mask
       IN  IF a.setsize # SIGSET_SIZE THEN fail(-EINVAL)
           ELSE IF ~is_user_memory_readable(a.mask.p) THEN fail(-EFAULT)
           ELSE /\ signal_mask' = [signal_mask EXCEPT ![t] = user_sigmask(a.mask.v)]
                /\ pc' = [pc EXCEPT ![t] = "ss_prepare"]
                /\ loc' = [loc EXCEPT ![t].tmp = tmp0]
                /\ UNCHANGED ret
    /\ UNCHANGED <<threads, signal_altstack, actions, disp_lock, proc_pending,
                   thr_pending, event, ref_count>>

\* thread_prepare_wait()
rt_sigsuspend_prepare(t) ==
    /\ t \in threads
    /\ pc[t] = "ss_prepare"
    /\ event' = thread_prepare_wait(event, t)
    /\ pc' = [pc EXCEPT ![t] = "ss_check"]
    /\ UNCHANGED <<threads, signal_mask, signal_altstack, actions, disp_lock,
                   proc_pending, thr_pending, ref_count, loc, ret>>

\* while (!have_pending_signals()): leaving the loop returns -EINTR.
rt_sigsuspend_check(t) ==
    /\ t \in threads
    /\ pc[t] = "ss_check"
    /\ IF have_pending_signals(t)
       THEN Return(t, [SuspendRec(t, -EINTR) EXCEPT !.saw = TRUE])
       ELSE /\ pc' = [pc EXCEPT ![t] = "ss_wait"]
            /\ UNCHANGED <<loc, ret>>
    /\ UNCHANGED <<threads, signal_mask, signal_altstack, actions, disp_lock,
                   proc_pending, thr_pending, event, ref_count>>

sigsuspend_wait_failed_any(wait_ret) == wait_ret < 0

\* if (ret < 0 && ret != -EINTR) return ret
sigsuspend_wait_failed(wait_ret) == wait_ret < 0 /\ wait_ret # -EINTR

\* thread_wait(NULL, false); a failure other than -EINTR is returned.
rt_sigsuspend_wait(t) ==
    /\ t \in threads
    /\ pc[t] = "ss_wait"
    /\ \E r \in WaitOutcomes(t, FALSE, loc[t].a.wait_err) :
         /\ event' = IF r = 0 THEN [event EXCEPT ![t] = FALSE] ELSE event
         /\ IF sigsuspend_wait_failed(r)
            THEN Return(t, SuspendRec(t, r))
            ELSE /\ pc' = [pc EXCEPT ![t] = "ss_check"]
                 /\ UNCHANGED <<loc, ret>>
    /\ UNCHANGED <<threads, signal_mask, signal_altstack, actions, disp_lock,
                   proc_pending, thr_pending, ref_count>>

rt_sigsuspend_steps(t) ==
    \/ libos_syscall_rt_sigsuspend(t)
    \/ rt_sigsuspend_prepare(t)
    \/ rt_sigsuspend_check(t)
    \/ rt_sigsuspend_wait(t)

(***************************************************************************)
(* rt_sigtimedwait                                                         *)
(***************************************************************************)
NoTimeout == [p |-> "null", tv_sec |-> 0, tv_nsec |-> 0]

TimedwaitRec(t, r, info, wrote) ==
    [op |-> "rt_sigtimedwait", set |-> loc[t].a.set, info |-> loc[t].a.info,
     timeout |-> loc[t].a.timeout, ret |-> r, info_out |-> info,
     wrote |-> wrote, before |-> loc[t].tmp.entry]

\* The argument checks: 0 or the negative error.
rt_sigtimedwait_check(set, info, timeout, setsize) ==
    IF setsize # SIGSET_SIZE THEN -EINVAL
    ELSE IF ~is_user_memory_readable(set.p) THEN -EFAULT
    ELSE IF info # "null" /\ ~is_user_memory_writable(info) THEN -EFAULT
    ELSE IF timeout.p # "null" /\ ~is_user_memory_readable(timeout.p) THEN -EFAULT
    ELSE IF timeout.p # "null"
            /\ (timeout.tv_sec < 0 \/ timeout.tv_nsec < 0
                \/ timeout.tv_nsec >= TIME_NS_IN_S) THEN -EINVAL
    ELSE 0

timedwait_temp_mask_or(old, unblocked) == __sigorset(old, unblocked)

\* __signotset(&new, &old, &unblocked): the mask while waiting.
timedwait_temp_mask(old, unblocked) == __signotset(old, unblocked)

timedwait_restore_mask_temp(old, cur) == cur

\* set_sig_mask(current, &old): the mask put back before returning.
timedwait_restore_mask(old, cur) == old

\* Entry: the checks, then the temporary mask is installed under the lock.
libos_syscall_rt_sigtimedwait(t) ==
    /\ InCall(t, "rt_sigtimedwait")
    /\ LET a == loc[t].a
           e == rt_sigtimedwait_check(a.set, a.info, a.timeout, a.setsize)
           unblocked == clear_illegal_signals(a.set.v)
           old == get_sig_mask(signal_mask[t])
       IN  IF e # 0
           THEN /\ Return(t, [op |-> "rt_sigtimedwait", set |-> a.set, info |-> a.info,
                              timeout |-> a.timeout, ret |-> e, info_out |-> NoInfo,
                              wrote |-> FALSE, before |-> signal_mask[t]])
                /\ UNCHANGED signal_mask
           ELSE /\ signal_mask' = [signal_mask EXCEPT ![t] =
                                      timedwait_temp_mask(old, unblocked)]
                /\ pc' = [pc EXCEPT ![t] = "tw_prepare"]
                /\ loc' = [loc EXCEPT ![t].tmp =
                              [k |-> "tw", entry |-> signal_mask[t], old |-> old,
                               unblocked |-> unblocked,
                               thread_wait_res |-> -EINTR, ret |-> 0,
                               info_out |-> NoInfo, wrote |-> FALSE]]
                /\ UNCHANGED ret
    /\ UNCHANGED <<threads, signal_altstack, actions, disp_lock, proc_pending,
                   thr_pending, event, ref_count>>

\* thread_prepare_wait()
rt_sigtimedwait_prepare(t) ==
    /\ t \in threads
    /\ pc[t] = "tw_prepare"
    /\ event' = thread_prepare_wait(event, t)
    /\ pc' = [pc EXCEPT ![t] = "tw_check"]
    /\ UNCHANGED <<threads, signal_mask, signal_altstack, actions, disp_lock,
                   proc_pending, thr_pending, ref_count, loc, ret>>

\* while (!have_pending_signals())
rt_sigtimedwait_check_pending(t) ==
    /\ t \in threads
    /\ pc[t] = "tw_check"
    /\ pc' = [pc EXCEPT ![t] = IF have_pending_signals(t) THEN "tw_pop" ELSE "tw_wait"]
    /\ UNCHANGED <<threads, signal_mask, signal_altstack, actions, disp_lock,
                   proc_pending, thr_pending, event, ref_count, loc, ret>>

\* thread_wait(timeout ? &timeout_us : NULL, false); -ETIMEDOUT ends the loop.
rt_sigtimedwait_wait(t) ==
    /\ t \in threads
    /\ pc[t] = "tw_wait"
    /\ \E r \in WaitOutcomes(t, loc[t].a.timeout.p # "null", loc[t].a.wait_err) :
         /\ event' = IF r = 0 THEN [event EXCEPT ![t] = FALSE] ELSE event
         /\ loc' = [loc EXCEPT ![t].tmp.thread_wait_res = r]
         /\ pc' = [pc EXCEPT ![t] = IF r = -ETIMEDOUT THEN "tw_pop" ELSE "tw_check"]
    /\ UNCHANGED <<threads, signal_mask, signal_altstack, actions, disp_lock,
                   proc_pending, thr_pending, ref_count, ret>>

\* The mask handed to pop_unblocked_signal: everything but the unblocked set.
timedwait_pop_mask_all(unblocked) == {}

timedwait_pop_mask(unblocked) == __signotset(__sigfillset, unblocked)

timedwait_no_signal_result_again(thread_wait_res) == -EAGAIN

\* ret = (thread_wait_res == -ETIMEDOUT ? -EAGAIN : -EINTR)
timedwait_no_signal_result(thread_wait_res) ==
    IF thread_wait_res = -ETIMEDOUT THEN -EAGAIN ELSE -EINTR

timedwait_signal_result_zero(siginfo) == 0

\* ret = signal.siginfo.si_signo
timedwait_signal_result(siginfo) == siginfo.si_signo

\* pop_unblocked_signal(&mask, &signal) and the choice of the return value.
rt_sigtimedwait_pop(t) ==
    /\ t \in threads
    /\ pc[t] = "tw_pop"
    /\ LET cands == PopCandidates(t, timedwait_pop_mask(loc[t].tmp.unblocked))
       IN  IF cands = {}
           THEN /\ loc' = [loc EXCEPT ![t].tmp.ret =
                              timedwait_no_signal_result(loc[t].tmp.thread_wait_res)]
                /\ UNCHANGED <<proc_pending, thr_pending>>
           ELSE \E c \in cands :
                   /\ PopFrom(t, c)
                   /\ loc' = [loc EXCEPT ![t].tmp =
                                 [@ EXCEPT !.ret = timedwait_signal_result(c.info),
                                           !.info_out = IF loc[t].a.info # "null"
                                                        THEN c.info ELSE NoInfo,
                                           !.wrote = loc[t].a.info # "null"]]
    /\ pc' = [pc EXCEPT ![t] = "tw_restore"]
    /\ UNCHANGED <<threads, signal_mask, signal_altstack, actions, disp_lock,
                   event, ref_count, ret>>

\* lock; set_sig_mask(current, &old); unlock; return ret
rt_sigtimedwait_restore(t) ==
    /\ t \in threads
    /\ pc[t] = "tw_restore"
    /\ signal_mask' = [signal_mask EXCEPT ![t] =
                          timedwait_restore_mask(loc[t].tmp.old, signal_mask[t])]
    /\ Return(t, TimedwaitRec(t, loc[t].tmp.ret, loc[t].tmp.info_out, loc[t].tmp.wrote))
    /\ UNCHANGED <<threads, signal_altstack, actions, disp_lock, proc_pending,
                   thr_pending, event, ref_count>>

rt_sigtimedwait_steps(t) ==
    \/ libos_syscall_rt_sigtimedwait(t)
    \/ rt_sigtimedwait_prepare(t)
    \/ rt_sigtimedwait_check_pending(t)
    \/ rt_sigtimedwait_wait(t)
    \/ rt_sigtimedwait_pop(t)
    \/ rt_sigtimedwait_restore(t)

(***************************************************************************)
(* Signal dispatch: a thread in user mode takes one pending signal that its *)
(* mask does not block.                                                    *)
(***************************************************************************)
deliver(t) ==
    /\ t \in threads
    /\ pc[t] = "run"
    /\ \E c \in PopCandidates(t, signal_mask[t]) :
         /\ PopFrom(t, c)
         /\ ret' = [ret EXCEPT ![t] = [op |-> "deliver", info |-> c.info]]
    /\ UNCHANGED <<threads, signal_mask, signal_altstack, actions, disp_lock,
                   event, ref_count, pc, loc>>

(***************************************************************************)
(* Initial states.                                                         *)
(***************************************************************************)
\* A process with live threads 1..n, every mask empty, no alternate stack,
\* default dispositions and nothing pending.
InitProcess(n) ==
    /\ threads = 1..n
    /\ signal_mask = [t \in Tids |-> {}]
    /\ signal_altstack = [t \in Tids |-> NoStack]
    /\ actions = [s \in AllSigs |-> DefaultAction]
    /\ disp_lock = 0
    /\ proc_pending = {}
    /\ thr_pending = [t \in Tids |-> {}]
    /\ event = [t \in Tids |-> FALSE]
    /\ ref_count = [t \in Tids |-> IF t \in 1..n THEN 1 ELSE 0]
    /\ pc = [t \in Tids |-> "run"]
    /\ loc = [t \in Tids |-> NoLoc]
    /\ ret = [t \in Tids |-> NoCall]

(***************************************************************************)
(* Syscall argument records.                                               *)
(***************************************************************************)
SigprocmaskCall(how, set, oldset, size) ==
    [op |-> "rt_sigprocmask", how |-> how, set |-> set, oldset |-> oldset,
     sigsetsize |-> size]

SigreturnCall(frame_mask) == [op |-> "rt_sigreturn", frame_mask |-> frame_mask]

SigsuspendCall(mask, size) ==
    [op |-> "rt_sigsuspend", mask |-> mask, setsize |-> size, wait_err |-> 0]

ValidTimeout == [p |-> "rw", tv_sec |-> 0, tv_nsec |-> 50000000]

TimedwaitCall(set, info, timeout, size) ==
    [op |-> "rt_sigtimedwait", set |-> set, info |-> info, timeout |-> timeout,
     setsize |-> size, wait_err |-> 0]

SigpendingCall(set, size) == [op |-> "rt_sigpending", set |-> set, sigsetsize |-> size]

\* kill(pid, sig) by a thread of the application.  sender is what the
\* syscall passes down (g_process.pid); nomem, ipc_ret and walk_ret are the
\* results of append_signal, the IPC call and walk_thread_list (0: the walk
\* does not fail); internal is is_internal(current).
KillCall(pid, sig, nomem, ipc_ret) ==
    [op |-> "kill", pid |-> pid, sig |-> sig, nomem |-> nomem, ipc_ret |-> ipc_ret,
     sender |-> OwnPid, internal |-> FALSE, walk_ret |-> 0]

\* do_kill_proc or do_kill_pgroup (op) called by the IPC worker, an internal
\* thread, for the process sender; id is the pid or the pgid.
DoKillCall(op, sender, id, sig, ipc_ret, walk_ret) ==
    [op |-> op, pid |-> id, sig |-> sig, nomem |-> FALSE, ipc_ret |-> ipc_ret,
     sender |-> sender, internal |-> TRUE, walk_ret |-> walk_ret]

TkillCall(tid, sig, nomem, resume_ret) ==
    [op |-> "tkill", tgid |-> OwnPid, tid |-> tid, sig |-> sig, nomem |-> nomem,
     resume_ret |-> resume_ret, ipc_ret |-> 0, sender |-> OwnPid]

TgkillCall(tgid, tid, sig, nomem, resume_ret, ipc_ret) ==
    [op |-> "tgkill", tgid |-> tgid, tid |-> tid, sig |-> sig, nomem |-> nomem,
     resume_ret |-> resume_ret, ipc_ret |-> ipc_ret, sender |-> OwnPid]

\* do_kill_thread called by the IPC worker for the process sender.
DoKillThreadCall(sender, tgid, tid, sig, nomem, resume_ret, ipc_ret) ==
    [op |-> "do_kill_thread", tgid |-> tgid, tid |-> tid, sig |-> sig,
     nomem |-> nomem, resume_ret |-> resume_ret, ipc_ret |-> ipc_ret,
     sender |-> sender]

(***************************************************************************)
(* Spec: the threads of a process change their masks with rt_sigprocmask,  *)
(* rt_sigreturn, rt_sigsuspend and rt_sigtimedwait, in any interleaving,   *)
(* while signal 1 is posted to the process and dispatched.                 *)
(***************************************************************************)
Calls ==
    {SigprocmaskCall(how, SetPtr({1} \cup IllegalSigs), "null", SIGSET_SIZE) :
        how \in {SIG_BLOCK, SIG_UNBLOCK, SIG_SETMASK}}
    \cup {SigreturnCall({1} \cup IllegalSigs), SigreturnCall({SIGSTOP})}
    \cup {SigsuspendCall(SetPtr(S), SIGSET_SIZE) : S \in {{SIGKILL}, {1, SIGSTOP}}}
    \cup {TimedwaitCall(SetPtr({1, SIGSTOP}), "rw", tm, SIGSET_SIZE) :
            tm \in {NoTimeout, ValidTimeout}}
    \cup {KillCall(OwnPid, 1, FALSE, 0)}

Init == InitProcess(NumThreads)

EnterCall(t) == Enter(t, Calls)

Next ==
    \E t \in Tids :
        \/ EnterCall(t)
        \/ libos_syscall_rt_sigprocmask(t)
        \/ libos_syscall_rt_sigreturn(t)
        \/ rt_sigsuspend_steps(t)
        \/ rt_sigtimedwait_steps(t)
        \/ kill_steps(t)
        \/ deliver(t)

Spec == Init /\ [][Next]_vars

(***************************************************************************)
(* SpecSeq: one thread calls rt_sigprocmask with every kind of argument.   *)
(***************************************************************************)
SyscallSets == {U \cup I : U \in SUBSET UserSigs, I \in SUBSET IllegalSigs}

ValidHows == {SIG_BLOCK, SIG_UNBLOCK, SIG_SETMASK}

SeqCalls ==
    {SigprocmaskCall(how, set, oldset, SIGSET_SIZE) :
        how \in ValidHows,
        set \in {NullPtr} \cup {SetPtr(S) : S \in SyscallSets},
        oldset \in {"null", "rw"}}
    \cup {SigprocmaskCall(how, set, oldset, SIGSET_SIZE) :
            how \in {SIG_SETMASK, SIG_SETMASK + 1, SIG_BLOCK - 1},
            set \in {NullPtr, BadPtr, SetPtr({1, SIGKILL})},
            oldset \in {"rw", "ro", "none"}}
    \cup {SigprocmaskCall(SIG_SETMASK, set, "rw", size) :
            set \in {NullPtr, SetPtr({1})},
            size \in {0, SIGSET_SIZE - 4, SIGSET_SIZE + 8}}

InitSeq == InitProcess(1)

EnterSeq(t) == Enter(t, SeqCalls)

NextSeq == \E t \in Tids : EnterSeq(t) \/ libos_syscall_rt_sigprocmask(t)

SpecSeq == InitSeq /\ [][NextSeq]_vars

(***************************************************************************)
(* SpecPend: the only thread of a process blocks and unblocks signals,     *)
(* posts them to its own process, queries what is pending and takes what   *)
(* is deliverable.  The last user signal starts ignored or default.        *)
(***************************************************************************)
PendCalls ==
    {SigprocmaskCall(how, SetPtr({s}), "null", SIGSET_SIZE) :
        how \in {SIG_BLOCK, SIG_UNBLOCK}, s \in UserSigs}
    \cup {KillCall(pid, s, nomem, 0) :
            pid \in {OwnPid, 0}, s \in UserSigs \cup {0}, nomem \in BOOLEAN}
    \cup {SigpendingCall(p, SIGSET_SIZE) : p \in {"rw", "none"}}
    \cup {TimedwaitCall(SetPtr({s}), "rw", ValidTimeout, SIGSET_SIZE) : s \in UserSigs}

InitActions ==
    {[s \in AllSigs |-> DefaultAction],
     [s \in AllSigs |-> IF s = NumUserSigs
                        THEN [DefaultAction EXCEPT !.k_sa_handler = SIG_IGN]
                        ELSE DefaultAction]}

InitPend ==
    /\ threads = {1}
    /\ signal_mask = [t \in Tids |-> {}]
    /\ signal_altstack = [t \in Tids |-> NoStack]
    /\ actions \in InitActions
    /\ disp_lock = 0
    /\ proc_pending = {}
    /\ thr_pending = [t \in Tids |-> {}]
    /\ event = [t \in Tids |-> FALSE]
    /\ ref_count = [t \in Tids |-> IF t = 1 THEN 1 ELSE 0]
    /\ pc = [t \in Tids |-> "run"]
    /\ loc = [t \in Tids |-> NoLoc]
    /\ ret = [t \in Tids |-> NoCall]

EnterPend(t) == Enter(t, PendCalls)

NextPend ==
    \E t \in Tids :
        \/ EnterPend(t)
        \/ libos_syscall_rt_sigprocmask(t)
        \/ libos_syscall_rt_sigpending(t)
        \/ rt_sigpending_ignored(t)
        \/ kill_steps(t)
        \/ rt_sigtimedwait_steps(t)
        \/ deliver(t)

SpecPend == InitPend /\ [][NextPend]_vars

(***************************************************************************)
(* SpecThread: threads post signals to threads with tkill and tgkill, and  *)
(* the IPC worker posts them with do_kill_thread for another process; the  *)
(* process has one live thread or all of them.                             *)
(***************************************************************************)
OtherPid == OwnPid + 1

\* The posts and probes with tkill from each thread to each tid.
ThreadPostCalls ==
    {TkillCall(tid, sig, FALSE, 0) : tid \in 0..NumThreads, sig \in {0, 1}}

\* Thread 1 also calls tgkill and makes the calls that fail.
ThreadOneCalls ==
    ThreadPostCalls
    \cup {TgkillCall(OwnPid, tid, 1, FALSE, 0, 0) : tid \in 1..NumThreads}
    \cup {TgkillCall(OwnPid, 1, 0, FALSE, 0, 0),
          TkillCall(1, 1, TRUE, 0), TkillCall(NumThreads, 1, FALSE, -EINVAL),
          TkillCall(1, -1, FALSE, 0), TgkillCall(OwnPid, 1, SIGS_CNT + 1, FALSE, 0, 0),
          TgkillCall(0, 1, 1, FALSE, 0, 0),
          TgkillCall(OtherPid, 1, 1, FALSE, 0, -ESRCH)}

\* The other threads post signal 1 to each thread and probe thread 1.
ThreadOtherCalls ==
    {TkillCall(tid, 1, FALSE, 0) : tid \in 1..NumThreads}
    \cup {TkillCall(1, 0, FALSE, 0)}

ThreadCalls(t) == IF t = 1 THEN ThreadOneCalls ELSE ThreadOtherCalls

\* The requests of the IPC worker: posts of signal 1 for another process to
\* each tid, a probe, and a request for a thread group that is not this
\* process.
ThreadWorkerCalls ==
    {DoKillThreadCall(OtherPid, OwnPid, tid, 1, FALSE, 0, 0) : tid \in 0..NumThreads}
    \cup {DoKillThreadCall(OtherPid, OwnPid, 1, 0, FALSE, 0, 0),
          DoKillThreadCall(OtherPid, OtherPid, 1, 1, FALSE, 0, -ESRCH)}

\* The threads of the process and the IPC worker.
ThreadTids == Tids \cup {IpcWorker}

InitThread ==
    /\ threads \in {1..n : n \in {1, NumThreads}}
    /\ signal_mask = [t \in ThreadTids |-> {}]
    /\ signal_altstack = [t \in ThreadTids |-> NoStack]
    /\ actions = [s \in AllSigs |-> DefaultAction]
    /\ disp_lock = 0
    /\ proc_pending = {}
    /\ thr_pending = [t \in ThreadTids |-> {}]
    /\ event = [t \in ThreadTids |-> FALSE]
    /\ ref_count = [t \in ThreadTids |-> IF t \in threads THEN 1 ELSE 0]
    /\ pc = [t \in ThreadTids |-> "run"]
    /\ loc = [t \in ThreadTids |-> NoLoc]
    /\ ret = [t \in ThreadTids |-> NoCall]

EnterThread(t) == Enter(t, ThreadCalls(t))

NextThread ==
    \E t \in ThreadTids :
        \/ EnterThread(t)
        \/ EnterWorker(t, ThreadWorkerCalls)
        \/ kill_thread_steps(t)
        \/ do_kill_thread(t)
        \/ deliver(t)

SpecThread == InitThread /\ [][NextThread]_vars

(***************************************************************************)
(* SpecAct: the threads of one process call rt_sigaction concurrently.     *)
(***************************************************************************)
\* Thread t installs a handler of its own, at address HandlerOf(t).
HandlerOf(t) == 4096 * t

ActOf(t) == [k_sa_handler |-> HandlerOf(t), sa_flags |-> {SA_RESTORER},
             sa_mask |-> {t, SIGKILL}]

SigactionCall(signum, act, oldact, size) ==
    [op |-> "rt_sigaction", signum |-> signum, act |-> act, oldact |-> oldact,
     sigsetsize |-> size]

\* Every thread swaps its own action into signal 1, or only reads it; calls
\* with each kind of bad argument are made too.
ActBadSignums == {-1, 0, SIGKILL, SIGSTOP, SIGS_CNT + 1}

\* The calls that install nothing of the caller's own.
ActSharedCalls ==
    {SigactionCall(1, NullAct, "rw", SIGSET_SIZE),
     SigactionCall(1, [p |-> "none", v |-> NoAction], "null", SIGSET_SIZE),
     SigactionCall(1, NullAct, "none", SIGSET_SIZE),
     SigactionCall(1, NullAct, "null", SIGSET_SIZE - 4)}

ActCalls(t) ==
    {SigactionCall(1, [p |-> "rw", v |-> ActOf(t)], "rw", SIGSET_SIZE),
     SigactionCall(1, [p |-> "rw", v |-> [ActOf(t) EXCEPT !.sa_flags = {}]],
                   "null", SIGSET_SIZE)}
    \cup {SigactionCall(sig, [p |-> "rw", v |-> ActOf(t)], "null", SIGSET_SIZE) :
            sig \in ActBadSignums}
    \cup ActSharedCalls

InitAct == InitProcess(NumThreads)

EnterAct(t) == Enter(t, ActCalls(t))

NextAct == \E t \in Tids : EnterAct(t) \/ rt_sigaction_steps(t)

SpecAct == InitAct /\ [][NextAct]_vars

(***************************************************************************)
(* Claims checked under SpecAct.                                           *)
(***************************************************************************)
BadSignum(signum) ==
    signum \in IllegalSigs \/ signum <= 0 \/ signum > SIGS_CNT

InSigactionBody(t) ==
    pc[t] \in {"sa_lock", "sa_old1", "sa_old2", "sa_new1", "sa_new2", "sa_clear",
               "sa_unlock"}

\* C4: rt_sigaction with signum SIGKILL, SIGSTOP, <= 0 or > SIGS_CNT returns
\* -EINVAL in the step that leaves the entry checks, and that step changes no
\* entry of the disposition table; the SIGKILL and SIGSTOP entries keep their
\* initial value and no call reaches the locked table access with either number.
C4_BadSignumRejected ==
    /\ [][\A t \in Tids :
            (InCall(t, "rt_sigaction") /\ BadSignum(loc[t].a.signum)
             /\ pc'[t] # pc[t])
            => /\ pc'[t] = "run"
               /\ ret'[t].op = "rt_sigaction"
               /\ ret'[t].ret = -EINVAL
               /\ actions' = actions]_vars
    /\ [](/\ actions[SIGKILL] = DefaultAction
          /\ actions[SIGSTOP] = DefaultAction
          /\ \A t \in Tids : InSigactionBody(t) => ~BadSignum(loc[t].a.signum))

\* C4 witness: a call for SIGSTOP has returned -EINVAL.
C4_Witness ==
    \E t \in Tids : /\ ret[t].op = "rt_sigaction"
                    /\ ret[t].signum = SIGSTOP
                    /\ ret[t].ret = -EINVAL

\* An action as the table holds it after a call stored it.
StoredAction(act) == [act EXCEPT !.sa_mask = @ \ IllegalSigs]

WrittenActions == {StoredAction(ActOf(u)) : u \in Tids}

\* C5: every old action a successful rt_sigaction returned is the initial
\* action or the whole action one call stored, never parts of two; and
\* whenever the table lock is free the entry is one of those too.
C5_SwapAtomic ==
    /\ \A t \in Tids :
          (ret[t].op = "rt_sigaction" /\ ret[t].ret = 0 /\ ret[t].oldact # "null")
          => ret[t].oldout \in {DefaultAction} \cup WrittenActions
    /\ disp_lock = 0 => actions[1] \in {DefaultAction} \cup WrittenActions

\* C5 witness: a thread got back the action another thread had stored, while
\* that other thread is inside a further call.
C5_Witness ==
    \E t, u \in Tids :
        /\ t # u
        /\ ret[t].op = "rt_sigaction" /\ ret[t].ret = 0
        /\ ret[t].act.p # "null"
        /\ ret[t].oldout = StoredAction(ActOf(u))
        /\ InSigactionBody(u)

(***************************************************************************)
(* SpecAlt: one thread calls sigaltstack, from its normal stack or from    *)
(* inside either of two candidate alternate stacks.                        *)
(***************************************************************************)
StackBases == {4096, 16384}
StackSizes == {0, MINSIGSTKSZ - 1, MINSIGSTKSZ}
StackFlags == {{}, {SS_DISABLE}, {SS_ONSTACK}, {SS_DISABLE, SS_ONSTACK}}
StackPointers == {0} \cup {b + 1 : b \in StackBases}

NullSS == [p |-> "null", v |-> NoStack]

AltstackArgs ==
    {NullSS, [p |-> "none", v |-> NoStack]}
    \cup {[p |-> "rw", v |-> [ss_sp |-> b, ss_size |-> z, ss_flags |-> f]] :
            b \in StackBases, z \in StackSizes, f \in StackFlags}

AltCalls ==
    {[op |-> "sigaltstack", ss |-> ss, oss |-> oss, sp |-> sp] :
        ss \in AltstackArgs, oss \in {"null", "rw", "ro", "none"}, sp \in StackPointers}

InitAlt == InitProcess(1)

EnterAlt(t) == Enter(t, AltCalls)

NextAlt == \E t \in Tids : EnterAlt(t) \/ libos_syscall_sigaltstack(t)

SpecAlt == InitAlt /\ [][NextAlt]_vars

\* A sigaltstack call whose arguments pass the entry checks and that asks for
\* a new stack: readable ss with no flag but possibly SS_DISABLE, oss absent or
\* writable.
AltValidNew(r) ==
    /\ r.op = "sigaltstack"
    /\ r.ss.p = "rw"
    /\ r.ss.v.ss_flags \subseteq {SS_DISABLE}
    /\ r.oss \in {"null", "rw"}

\* The thread entered the call running on its enabled alternate stack.
AltOnStack(r) ==
    /\ SS_DISABLE \notin r.before.ss_flags
    /\ is_on_altstack(r.sp, r.before)

AltEnablesTooSmall(r) ==
    /\ AltValidNew(r)
    /\ SS_DISABLE \notin r.ss.v.ss_flags
    /\ r.ss.v.ss_size < MINSIGSTKSZ

\* C6 as stated: every call that enables a stack smaller than MINSIGSTKSZ
\* returns -ENOMEM and leaves the descriptor unchanged.
C6_Original ==
    \A t \in Tids :
        AltEnablesTooSmall(ret[t])
        => /\ ret[t].ret = -ENOMEM
           /\ signal_altstack[t] = ret[t].before

\* C6 amended: a call that enables a stack smaller than MINSIGSTKSZ leaves the
\* descriptor unchanged; it returns -ENOMEM when the thread is not running on
\* its enabled alternate stack and -EPERM when it is.
C6_TooSmallRejected ==
    \A t \in Tids :
        AltEnablesTooSmall(ret[t])
        => /\ signal_altstack[t] = ret[t].before
           /\ ret[t].ret = IF AltOnStack(ret[t]) THEN -EPERM ELSE -ENOMEM

\* C6 witness: a stack is installed and a request one byte below the minimum,
\* made from the normal stack, has returned -ENOMEM.
C6_Witness ==
    \E t \in Tids :
        /\ AltEnablesTooSmall(ret[t])
        /\ ret[t].ss.v.ss_size = MINSIGSTKSZ - 1
        /\ ret[t].before.ss_size = MINSIGSTKSZ
        /\ ~AltOnStack(ret[t])
        /\ ret[t].ret = -ENOMEM

\* C7: a call that asks for a new stack, enabling or disabling, while the
\* thread runs inside its enabled alternate stack returns -EPERM and leaves
\* the descriptor unchanged; a requested oss holds the old descriptor with
\* SS_ONSTACK set.
C7_OnStackRejected ==
    \A t \in Tids :
        (AltValidNew(ret[t]) /\ AltOnStack(ret[t]))
        => /\ ret[t].ret = -EPERM
           /\ signal_altstack[t] = ret[t].before
           /\ ret[t].oss = "rw"
              => /\ ret[t].wrote
                 /\ SS_ONSTACK \in ret[t].oss_out.ss_flags
                 /\ ret[t].oss_out.ss_sp = ret[t].before.ss_sp
                 /\ ret[t].oss_out.ss_size = ret[t].before.ss_size

\* C7 witness: on the alternate stack, a request to disable it was refused and
\* the old descriptor came back with SS_ONSTACK.
C7_Witness ==
    \E t \in Tids :
        /\ AltValidNew(ret[t]) /\ AltOnStack(ret[t])
        /\ SS_DISABLE \in ret[t].ss.v.ss_flags
        /\ ret[t].oss = "rw"
        /\ ret[t].ret = -EPERM
        /\ SS_ONSTACK \in ret[t].oss_out.ss_flags

(***************************************************************************)
(* Claims on the signal mask (Spec, SpecSeq).                              *)
(***************************************************************************)
\* C1: in every reachable state, after any interleaving of rt_sigprocmask,
\* rt_sigreturn, rt_sigsuspend and rt_sigtimedwait calls by any threads, no
\* thread's signal mask contains SIGKILL or SIGSTOP; this covers the
\* temporary mask rt_sigtimedwait installs, the mask it saved and the mask
\* it puts back.
C1_NoIllegalInMask ==
    \A t \in Tids :
        /\ signal_mask[t] \cap {SIGKILL, SIGSTOP} = {}
        /\ (pc[t] \in {"tw_prepare", "tw_check", "tw_wait", "tw_pop", "tw_restore"}
              => loc[t].tmp.old \cap {SIGKILL, SIGSTOP} = {})

\* Thread 1 has returned from rt_sigprocmask(SIG_SETMASK) whose set held
\* SIGKILL and SIGSTOP while thread 2 waits in rt_sigtimedwait with a
\* non-empty temporary mask installed, after a set that held SIGSTOP.
C1_Witness ==
    /\ pc[1] = "run"
    /\ ret[1].op = "rt_sigprocmask"
    /\ ret[1].ret = 0
    /\ ret[1].how = SIG_SETMASK
    /\ {SIGKILL, SIGSTOP} \subseteq ret[1].set.v
    /\ signal_mask[1] # {}
    /\ pc[NumThreads] = "tw_wait"
    /\ SIGSTOP \in loc[NumThreads].a.set.v
    /\ loc[NumThreads].tmp.old # {}

\* A completed mask query: NULL new set, oldset given.
IsMaskQuery(r) ==
    r.op = "rt_sigprocmask" /\ r.ret = 0 /\ r.set.p = "null" /\ r.oldset # "null"

\* C2: for every set M, rt_sigprocmask(SIG_SETMASK, M) followed immediately
\* by a mask query of the same thread reports exactly M without SIGKILL and
\* SIGSTOP, whether or not M contained them.
C2_SetmaskThenQuery ==
    \A t \in threads :
        (pc[t] = "run" /\ IsMaskQuery(ret[t]) /\ ret[t].prev.k = "setmask")
            => /\ ret[t].wrote
               /\ ret[t].oldout = ret[t].prev.set \ {SIGKILL, SIGSTOP}

\* A query has answered after SIG_SETMASK of a set with a user signal and
\* both illegal signals.
C2_Witness ==
    \E t \in threads :
        /\ pc[t] = "run"
        /\ IsMaskQuery(ret[t])
        /\ ret[t].prev.k = "setmask"
        /\ {SIGKILL, SIGSTOP} \subseteq ret[t].prev.set
        /\ ret[t].prev.set \cap UserSigs # {}
        /\ ret[t].oldout = ret[t].prev.set \cap UserSigs

\* The reference function of (how, new set, current mask).
ReferenceMask(how, new, current) ==
    IF how = SIG_BLOCK THEN (current \cup new) \ {SIGKILL, SIGSTOP}
    ELSE IF how = SIG_UNBLOCK THEN (current \ new) \ {SIGKILL, SIGSTOP}
    ELSE new \ {SIGKILL, SIGSTOP}

\* C3: the mask a successful rt_sigprocmask leaves is the reference function
\* of (how, new set, mask before); with no new set the mask is unchanged; in
\* all these cases a requested oldset receives the mask as it was before.
C3_ReferenceFunction ==
    \A t \in threads :
        (pc[t] = "run" /\ ret[t].op = "rt_sigprocmask" /\ ret[t].ret = 0)
            => /\ signal_mask[t] =
                    IF ret[t].set.p = "null" THEN ret[t].before
                    ELSE ReferenceMask(ret[t].how, ret[t].set.v, ret[t].before)
               /\ ret[t].oldset # "null"
                    => ret[t].wrote /\ ret[t].oldout = ret[t].before

\* SIG_BLOCK of a set with a new user signal and SIGSTOP onto a non-empty
\* mask has returned, with oldset given.
C3_Witness ==
    \E t \in threads :
        /\ pc[t] = "run"
        /\ ret[t].op = "rt_sigprocmask"
        /\ ret[t].ret = 0
        /\ ret[t].how = SIG_BLOCK
        /\ ret[t].set.p # "null"
        /\ SIGSTOP \in ret[t].set.v
        /\ ret[t].before # {}
        /\ (ret[t].set.v \cap UserSigs) \ ret[t].before # {}
        /\ ret[t].oldset # "null"
        /\ signal_mask[t] = UserSigs

(***************************************************************************)
(* Claim on posting to the process (SpecPend).                             *)
(***************************************************************************)
\* A completed kill that posted sig locally with kill_current_proc.
PostedLocally(r) ==
    /\ r.op = "kill"
    /\ r.sig \in 1..SIGS_CNT
    /\ r.pid \in {OwnPid, 0, -OwnPgid}
    /\ ~r.nomem

\* C8: in a process whose single thread blocks s (s not ignored), posting s
\* with kill_current_proc returns 0, wakes no thread and leaves s pending;
\* rt_sigpending then reports s; s stays pending for as long as the thread
\* keeps it blocked; once the thread does not block s, s is among the
\* signals a pop of an unblocked pending signal yields.
C8_BlockedStaysPending ==
    /\ [](\A t \in threads :
            (threads = {t} /\ pc[t] = "run") =>
                /\ (PostedLocally(ret[t]) /\ ret[t].sig \in signal_mask[t]
                    /\ ret[t].sig \notin IgnoredSigs)
                      => /\ ret[t].ret = 0
                         /\ ret[t].woke = {}
                         /\ ~event[t]
                         /\ ret[t].sig \in SigsOf(proc_pending)
                /\ (ret[t].op = "rt_sigpending" /\ ret[t].ret = 0)
                      => \A s \in (SigsOf(proc_pending) \cap signal_mask[t]) \ IgnoredSigs :
                            s \in ret[t].out
                /\ \A s \in SigsOf(proc_pending) \ signal_mask[t] :
                      \E c \in PopCandidates(t, signal_mask[t]) : c.info.si_signo = s)
    /\ [][\A t \in threads : \A s \in SigsOf(proc_pending) :
            (threads = {t} /\ s \in signal_mask[t] /\ s \in signal_mask'[t])
                => s \in SigsOf(proc_pending')]_vars

\* The single thread has posted a signal it blocks and that is not ignored.
C8_Witness ==
    \E t \in threads :
        /\ threads = {t}
        /\ pc[t] = "run"
        /\ PostedLocally(ret[t])
        /\ ret[t].sig \in signal_mask[t]
        /\ ret[t].sig \notin IgnoredSigs
        /\ ret[t].queued

(***************************************************************************)
(* Claims on posting to a thread (SpecThread).                             *)
(***************************************************************************)
IsKillThread(op) == op \in {"tkill", "tgkill", "do_kill_thread"}

\* Arguments that pass the checks, address the caller's own process and
\* name a tid no live thread has.
NoSuchThread(a) ==
    /\ a.tgid = OwnPid
    /\ a.tid > 0
    /\ a.sig \in 0..SIGS_CNT
    /\ a.tid \notin threads

\* C9: tgkill and tkill addressed to the caller's own process with a tid that
\* no live thread has return -ESRCH, queue no signal in any pending store
\* and wake no thread.
C9_NoSuchThread ==
    /\ [](\A t \in Callers :
            (pc[t] = "run" /\ IsKillThread(ret[t].op) /\ NoSuchThread(ret[t]))
                => /\ ret[t].ret = -ESRCH
                   /\ ~ret[t].queued
                   /\ ret[t].woke = {}
                   /\ ret[t].resumed = {})
    /\ [][\A t \in Callers :
            (pc[t] # "run" /\ IsKillThread(loc[t].op) /\ NoSuchThread(loc[t].a)
             /\ pc'[t] # pc[t])
                => /\ pc'[t] = "run"
                   /\ UNCHANGED <<proc_pending, thr_pending, event, ref_count>>]_vars

\* A tgkill with a deliverable signal number to a tid without a thread has
\* returned -ESRCH.
C9_Witness ==
    \E t \in threads :
        /\ pc[t] = "run"
        /\ ret[t].op = "tgkill"
        /\ NoSuchThread(ret[t])
        /\ ret[t].sig # 0
        /\ ret[t].ret = -ESRCH

\* Arguments of an existence probe of a live thread of the caller's process.
IsProbe(a) ==
    /\ a.tgid = OwnPid
    /\ a.sig = 0
    /\ a.tid \in threads

\* C10: tgkill and tkill with sig == 0 addressed to an existing thread of the
\* caller's own process return 0, leave that thread's pending set and the
\* process-wide pending set unchanged, and neither wake nor resume the
\* target.
C10_ProbeOnly ==
    /\ [](\A t \in Callers :
            (pc[t] = "run" /\ IsKillThread(ret[t].op) /\ IsProbe(ret[t]))
                => /\ ret[t].ret = 0
                   /\ ~ret[t].queued
                   /\ ret[t].woke = {}
                   /\ ret[t].resumed = {})
    /\ [][\A t \in Callers :
            (pc[t] # "run" /\ IsKillThread(loc[t].op) /\ IsProbe(loc[t].a)
             /\ pc'[t] # pc[t])
                => UNCHANGED <<proc_pending, thr_pending, event>>]_vars

\* A probe of another thread that has a signal pending and is not woken has
\* returned 0.
C10_Witness ==
    \E t \in threads :
        /\ pc[t] = "run"
        /\ IsKillThread(ret[t].op)
        /\ IsProbe(ret[t])
        /\ ret[t].tid # t
        /\ ret[t].ret = 0
        /\ thr_pending[ret[t].tid] # {}
        /\ ~event[ret[t].tid]

(***************************************************************************)
(* SpecWait: thread 1 blocks signals and waits for them in                 *)
(* rt_sigtimedwait; the other threads post signals to it with tkill and    *)
(* to the process with kill.  Only thread 1 takes signals.                 *)
(***************************************************************************)
WaitWaiterCalls ==
         {TimedwaitCall(SetPtr(S), info, tm, SIGSET_SIZE) :
            S \in {{1}, UserSigs}, info \in {"rw", "null"},
            tm \in {NoTimeout, ValidTimeout}}
         \cup {TimedwaitCall(SetPtr({1}), "rw", ValidTimeout, SIGSET_SIZE - 4),
               TimedwaitCall(BadPtr, "rw", ValidTimeout, SIGSET_SIZE),
               TimedwaitCall(SetPtr({1}), "ro", ValidTimeout, SIGSET_SIZE),
               TimedwaitCall(SetPtr({1}), "rw", [ValidTimeout EXCEPT !.p = "none"],
                             SIGSET_SIZE),
               TimedwaitCall(SetPtr({1}), "rw",
                             [ValidTimeout EXCEPT !.tv_nsec = TIME_NS_IN_S], SIGSET_SIZE)}
         \cup {SigprocmaskCall(SIG_SETMASK, SetPtr(S), "null", SIGSET_SIZE) :
                S \in {{}, {1}, UserSigs}}

WaitPosterCalls ==
    {TkillCall(1, s, FALSE, 0) : s \in UserSigs}
    \cup {KillCall(OwnPid, NumUserSigs, FALSE, 0)}

WaitCalls(t) == IF t = 1 THEN WaitWaiterCalls ELSE WaitPosterCalls

\* The posting threads block every user signal themselves.
InitWait ==
    /\ threads = Tids
    /\ signal_mask = [t \in Tids |-> IF t = 1 THEN {} ELSE UserSigs]
    /\ signal_altstack = [t \in Tids |-> NoStack]
    /\ actions = [s \in AllSigs |-> DefaultAction]
    /\ disp_lock = 0
    /\ proc_pending = {}
    /\ thr_pending = [t \in Tids |-> {}]
    /\ event = [t \in Tids |-> FALSE]
    /\ ref_count = [t \in Tids |-> 1]
    /\ pc = [t \in Tids |-> "run"]
    /\ loc = [t \in Tids |-> NoLoc]
    /\ ret = [t \in Tids |-> NoCall]

EnterWait(t) == Enter(t, WaitCalls(t))

NextWait ==
    \E t \in Tids :
        \/ EnterWait(t)
        \/ libos_syscall_rt_sigprocmask(t)
        \/ rt_sigtimedwait_steps(t)
        \/ kill_thread_steps(t)
        \/ kill_steps(t)
        \/ deliver(t)

SpecWait == InitWait /\ [][NextWait]_vars

\* The pending records, in either store, that thread t's rt_sigtimedwait
\* waits for.
WaitedRecords(t) ==
    {r \in thr_pending[t] \cup proc_pending : r.si_signo \in loc[t].tmp.unblocked}

\* C11: when a thread in rt_sigtimedwait on target set S comes to take a
\* signal, whether its last wait was woken, interrupted or timed out, and a
\* signal s of S posted to that thread is the pending signal of S, then the
\* call returns s, the caller's info structure (when provided) holds the
\* posted record, and s is no longer pending.
C11_PostedSignalReturned ==
    [][\A t \in threads : \A r \in thr_pending[t] :
        /\ (pc[t] = "tw_pop" /\ pc'[t] = "tw_restore" /\ WaitedRecords(t) = {r})
              => /\ loc'[t].tmp.ret = r.si_signo
                 /\ loc[t].a.info # "null"
                      => loc'[t].tmp.wrote /\ loc'[t].tmp.info_out = r
                 /\ r.si_signo \notin get_all_pending_signals(t)'
        /\ (pc[t] = "tw_restore" /\ pc'[t] = "run" /\ loc[t].tmp.ret > 0)
              => /\ ret'[t].ret = loc[t].tmp.ret
                 /\ ret'[t].info_out = loc[t].tmp.info_out
                 /\ ret'[t].wrote = loc[t].tmp.wrote]_vars

\* rt_sigtimedwait has returned the number of a signal another thread
\* posted to the waiting thread with tkill, with its record in info.
C11_Witness ==
    \E t \in threads :
        /\ pc[t] = "run"
        /\ ret[t].op = "rt_sigtimedwait"
        /\ ret[t].ret \in ret[t].set.v
        /\ ret[t].wrote
        /\ ret[t].info_out = SigInfo(ret[t].ret, OwnPid, SI_TKILL)
        /\ ret[t].ret \notin get_all_pending_signals(t)


\* C12: for every outcome of rt_sigtimedwait (a signal number, -EAGAIN,
\* -EINTR or a validation error) the calling thread's signal mask when the
\* call returns equals its mask when the call was entered.
C12_MaskRestored ==
    \A t \in threads :
        (pc[t] = "run" /\ ret[t].op = "rt_sigtimedwait")
            => signal_mask[t] = ret[t].before

\* rt_sigtimedwait has timed out after waiting with some signals of the
\* mask at entry unblocked.
C12_Witness ==
    \E t \in threads :
        /\ pc[t] = "run"
        /\ ret[t].op = "rt_sigtimedwait"
        /\ ret[t].ret = -EAGAIN
        /\ ret[t].before \cap ret[t].set.v # {}
        /\ signal_mask[t] = ret[t].before


(***************************************************************************)
(* SpecTimed: the single thread of a process sets its mask, posts signals  *)
(* to itself and waits in rt_sigtimedwait, with and without a timeout.     *)
(* FairTimed adds the scheduling: a syscall in progress keeps running, a   *)
(* woken wait returns, and the deadline of a wait with a timeout passes.   *)
(***************************************************************************)
ZeroTimeout == [p |-> "rw", tv_sec |-> 0, tv_nsec |-> 0]

TimedCalls ==
    {TimedwaitCall(SetPtr(S), "rw", tm, SIGSET_SIZE) :
        S \in {{}, {1}}, tm \in {NoTimeout, ValidTimeout, ZeroTimeout}}
    \cup {SigprocmaskCall(SIG_SETMASK, SetPtr(S), "null", SIGSET_SIZE) :
            S \in {{}, {1}, UserSigs}}
    \cup {KillCall(OwnPid, s, FALSE, 0) : s \in UserSigs}

InitTimed == InitProcess(1)

EnterTimed(t) == Enter(t, TimedCalls)

NextTimed ==
    \E t \in Tids :
        \/ EnterTimed(t)
        \/ libos_syscall_rt_sigprocmask(t)
        \/ rt_sigtimedwait_steps(t)
        \/ kill_steps(t)
        \/ deliver(t)

SpecTimed == InitTimed /\ [][NextTimed]_vars

\* thread_wait returns -ETIMEDOUT: the deadline has passed.
rt_sigtimedwait_timeout(t) ==
    rt_sigtimedwait_wait(t) /\ loc'[t].tmp.thread_wait_res = -ETIMEDOUT

\* thread_wait returns 0: the thread was woken.
rt_sigtimedwait_woken(t) ==
    rt_sigtimedwait_wait(t) /\ loc'[t].tmp.thread_wait_res = 0

\* The steps of rt_sigtimedwait that do not wait.
rt_sigtimedwait_running(t) ==
    \/ libos_syscall_rt_sigtimedwait(t)
    \/ rt_sigtimedwait_prepare(t)
    \/ rt_sigtimedwait_check_pending(t)
    \/ rt_sigtimedwait_pop(t)
    \/ rt_sigtimedwait_restore(t)

FairTimed ==
    /\ SpecTimed
    /\ \A t \in Tids :
        /\ WF_vars(rt_sigtimedwait_running(t))
        /\ WF_vars(rt_sigtimedwait_woken(t))
        /\ SF_vars(rt_sigtimedwait_timeout(t))
        /\ WF_vars(libos_syscall_rt_sigprocmask(t))
        /\ WF_vars(kill_steps(t))

\* Thread t has entered rt_sigtimedwait with a timeout and valid arguments
\* and nothing is pending for it.
TimedwaitStarted(t) ==
    /\ t \in threads
    /\ pc[t] = "tw_prepare"
    /\ loc[t].a.timeout.p # "null"
    /\ get_all_pending_signals(t) = {}

\* C13: with a timeout and no signal ever posted (the caller is the only
\* thread and nothing is pending) rt_sigtimedwait eventually returns
\* -EAGAIN, and only after a wait ended with -ETIMEDOUT; whenever no signal
\* of the target set is popped the result is -EAGAIN if a timeout was
\* supplied and the last wait ended by timeout, and -EINTR otherwise; no
\* other path returns -EAGAIN.
C13_TimeoutGivesEAGAIN ==
    /\ \A t \in Tids :
          TimedwaitStarted(t)
              ~> (pc[t] = "run" /\ ret[t].op = "rt_sigtimedwait" /\ ret[t].ret = -EAGAIN)
    /\ [](\A t \in threads :
            /\ (pc[t] \in {"tw_prepare", "tw_check", "tw_wait", "tw_pop", "tw_restore"}
                /\ loc[t].tmp.thread_wait_res = -ETIMEDOUT)
                  => loc[t].a.timeout.p # "null"
            /\ (pc[t] = "tw_pop" /\ get_all_pending_signals(t) = {})
                  => loc[t].tmp.thread_wait_res = -ETIMEDOUT
            /\ (pc[t] = "run" /\ ret[t].op = "rt_sigtimedwait" /\ ret[t].ret = -EAGAIN)
                  => ret[t].timeout.p # "null")
    /\ [][\A t \in threads :
            /\ (pc[t] = "tw_pop" /\ pc'[t] = "tw_restore")
                  => /\ loc'[t].tmp.ret = -EAGAIN
                        <=> /\ loc[t].a.timeout.p # "null"
                            /\ loc[t].tmp.thread_wait_res = -ETIMEDOUT
                            /\ WaitedRecords(t) = {}
                     /\ (WaitedRecords(t) = {}
                         /\ loc[t].tmp.thread_wait_res # -ETIMEDOUT)
                           => loc'[t].tmp.ret = -EINTR
            /\ (pc[t] = "enter" /\ loc[t].op = "rt_sigtimedwait" /\ pc'[t] = "run")
                  => ret'[t].ret # -EAGAIN
            /\ (pc[t] = "tw_restore" /\ pc'[t] = "run")
                  => ret'[t].ret = loc[t].tmp.ret]_vars

\* A call with a non-zero timeout and nothing pending has returned -EAGAIN.
C13_Witness ==
    \E t \in threads :
        /\ pc[t] = "run"
        /\ ret[t].op = "rt_sigtimedwait"
        /\ ret[t].timeout = ValidTimeout
        /\ ret[t].ret = -EAGAIN
        /\ get_all_pending_signals(t) = {}


(***************************************************************************)
(* SpecSuspend: thread 1 sets its mask and suspends in rt_sigsuspend; the  *)
(* other threads block the user signals and post them to the process.      *)
(* The last user signal starts ignored or default.  FairSuspend adds the   *)
(* scheduling: a syscall in progress keeps running and a woken wait        *)
(* returns; a wait that nobody wakes may never return.                     *)
(***************************************************************************)
SuspendWaiterCalls ==
         {SigsuspendCall(SetPtr(S), SIGSET_SIZE) : S \in {{}, {1}, {SIGKILL}}}
         \cup {[SigsuspendCall(SetPtr({}), SIGSET_SIZE) EXCEPT !.wait_err = -ENOMEM],
               SigsuspendCall(SetPtr({}), SIGSET_SIZE - 4),
               SigsuspendCall(BadPtr, SIGSET_SIZE)}
         \cup {SigprocmaskCall(SIG_SETMASK, SetPtr(S), "null", SIGSET_SIZE) :
                S \in {{}, UserSigs}}

SuspendPosterCalls == {KillCall(OwnPid, s, FALSE, 0) : s \in UserSigs}

SuspendCalls(t) == IF t = 1 THEN SuspendWaiterCalls ELSE SuspendPosterCalls

InitSuspend ==
    /\ threads = Tids
    /\ signal_mask = [t \in Tids |-> IF t = 1 THEN {} ELSE UserSigs]
    /\ signal_altstack = [t \in Tids |-> NoStack]
    /\ actions \in InitActions
    /\ disp_lock = 0
    /\ proc_pending = {}
    /\ thr_pending = [t \in Tids |-> {}]
    /\ event = [t \in Tids |-> FALSE]
    /\ ref_count = [t \in Tids |-> 1]
    /\ pc = [t \in Tids |-> "run"]
    /\ loc = [t \in Tids |-> NoLoc]
    /\ ret = [t \in Tids |-> NoCall]

EnterSuspend(t) == Enter(t, SuspendCalls(t))

NextSuspend ==
    \E t \in Tids :
        \/ EnterSuspend(t)
        \/ libos_syscall_rt_sigprocmask(t)
        \/ rt_sigsuspend_steps(t)
        \/ kill_steps(t)
        \/ deliver(t)

SpecSuspend == InitSuspend /\ [][NextSuspend]_vars

\* thread_wait returns 0: the thread was woken.
rt_sigsuspend_woken(t) == rt_sigsuspend_wait(t) /\ event'[t] # event[t]

\* The steps of rt_sigsuspend that do not wait.
rt_sigsuspend_running(t) ==
    \/ libos_syscall_rt_sigsuspend(t)
    \/ rt_sigsuspend_prepare(t)
    \/ rt_sigsuspend_check(t)

FairSuspend ==
    /\ SpecSuspend
    /\ \A t \in Tids :
        /\ WF_vars(rt_sigsuspend_running(t))
        /\ WF_vars(rt_sigsuspend_woken(t))
        /\ WF_vars(libos_syscall_rt_sigprocmask(t))
        /\ WF_vars(kill_steps(t))

\* C14: rt_sigsuspend never returns 0: it returns -EINTR, and then a
\* deliverable pending signal was observed, or the error of installing the
\* mask (nothing was waited for), or the failure of a wait other than
\* -EINTR, unchanged.
C14_SuspendNeverZero ==
    \A t \in threads :
        (pc[t] = "run" /\ ret[t].op = "rt_sigsuspend")
            => /\ ret[t].ret < 0
               /\ \/ ret[t].ret = -EINTR /\ ret[t].saw
                  \/ /\ ret[t].ret = -EINVAL
                     /\ ret[t].setsize # SIGSET_SIZE
                     /\ ~ret[t].saw
                  \/ /\ ret[t].ret = -EFAULT
                     /\ ret[t].mask.p \notin {"rw", "ro"}
                     /\ ~ret[t].saw
                  \/ /\ ret[t].ret = ret[t].wait_err
                     /\ ret[t].ret # -EINTR
                     /\ ~ret[t].saw

\* rt_sigsuspend has returned -EINTR after another thread posted a signal
\* that woke it.
C14_Witness ==
    \E t \in threads :
        /\ pc[t] = "run"
        /\ ret[t].op = "rt_sigsuspend"
        /\ ret[t].ret = -EINTR
        /\ ret[t].saw
        /\ \E u \in threads \ {t} :
              ret[u].op = "kill" /\ ret[u].woke = {t}


\* Thread t is inside rt_sigsuspend (before the mask is installed, between
\* the check and the wait, or waiting) with a temporary mask that leaves s
\* unblocked; s is pending for the process and not ignored; every other
\* thread blocks s; the host wait does not fail.
SuspendedWithPending(t, s) ==
    /\ t \in threads
    /\ \/ InCall(t, "rt_sigsuspend")
          /\ loc[t].a.setsize = SIGSET_SIZE
          /\ loc[t].a.mask.p = "rw"
       \/ pc[t] \in {"ss_prepare", "ss_check", "ss_wait"}
    /\ s \notin loc[t].a.mask.v
    /\ loc[t].a.wait_err = 0
    /\ s \in SigsOf(proc_pending)
    /\ s \notin IgnoredSigs
    /\ \A u \in threads \ {t} : s \in signal_mask[u]

\* C15: no lost wakeup.  If thread T is in rt_sigsuspend with a temporary
\* mask that leaves s unblocked, s is not ignored, T is the only thread
\* that does not block s, and another thread posts s to the process at any
\* point of T's call, then under fair scheduling T eventually returns
\* -EINTR.
C15_NoLostWakeup ==
    \A t \in Tids : \A s \in UserSigs :
        SuspendedWithPending(t, s)
            ~> (pc[t] = "run" /\ ret[t].op = "rt_sigsuspend" /\ ret[t].ret = -EINTR)

\* Thread T waits in rt_sigsuspend with s unblocked and nothing pending
\* while another thread is about to post s to the process.
C15_Witness ==
    \E t \in threads : \E u \in threads \ {t} : \E s \in UserSigs \ IgnoredSigs :
        /\ pc[t] = "ss_wait"
        /\ s \notin signal_mask[t]
        /\ ~event[t]
        /\ proc_pending = {}
        /\ InCall(u, "kill")
        /\ loc[u].a.sig = s
        /\ s \in signal_mask[u]


(***************************************************************************)
(* SpecQuery: thread 1 sets its mask and queries its pending signals; the  *)
(* other threads post signals to it and to the process, take signals that  *)
(* are pending process-wide, and switch signal 1 between ignored and       *)
(* default.                                                                *)
(***************************************************************************)
DispositionAct(handler) ==
    [p |-> "rw", v |-> [k_sa_handler |-> handler, sa_flags |-> {SA_RESTORER},
                        sa_mask |-> {}]]

QueryReaderCalls ==
         {SigpendingCall("rw", SIGSET_SIZE)}
         \cup {SigprocmaskCall(SIG_SETMASK, SetPtr(S), "null", SIGSET_SIZE) :
                S \in {{}, {1}, UserSigs \cup IllegalSigs}}

QueryPosterCalls ==
         {TkillCall(1, s, FALSE, 0) : s \in {1, SIGKILL}}
         \cup {KillCall(OwnPid, NumUserSigs, FALSE, 0)}
         \cup {SigactionCall(1, DispositionAct(SIG_IGN), "null", SIGSET_SIZE),
               SigactionCall(1, DispositionAct(SIG_DFL), "rw", SIGSET_SIZE)}

QueryCalls(t) == IF t = 1 THEN QueryReaderCalls ELSE QueryPosterCalls

InitQuery ==
    /\ threads = Tids
    /\ signal_mask = [t \in Tids |-> IF t = 1 THEN {} ELSE {NumUserSigs}]
    /\ signal_altstack = [t \in Tids |-> NoStack]
    /\ actions = [s \in AllSigs |-> DefaultAction]
    /\ disp_lock = 0
    /\ proc_pending = {}
    /\ thr_pending = [t \in Tids |-> {}]
    /\ event = [t \in Tids |-> FALSE]
    /\ ref_count = [t \in Tids |-> 1]
    /\ pc = [t \in Tids |-> "run"]
    /\ loc = [t \in Tids |-> NoLoc]
    /\ ret = [t \in Tids |-> NoCall]

EnterQuery(t) == Enter(t, QueryCalls(t))

NextQuery ==
    \E t \in Tids :
        \/ EnterQuery(t)
        \/ libos_syscall_rt_sigprocmask(t)
        \/ libos_syscall_rt_sigpending(t)
        \/ rt_sigpending_ignored(t)
        \/ rt_sigaction_steps(t)
        \/ kill_steps(t)
        \/ kill_thread_steps(t)
        \/ deliver(t)

SpecQuery == InitQuery /\ [][NextQuery]_vars

\* C16: the set a successful rt_sigpending writes is a subset of (pending
\* when read) INTERSECT (the caller's mask when read), holds no signal that
\* is ignored when the table is read, and never holds SIGKILL or SIGSTOP;
\* when what is pending and blocked has not changed in between, it is
\* exactly (pending INTERSECT blocked) MINUS ignored.
C16_PendingQuery ==
    /\ [](\A t \in threads :
            /\ pc[t] = "sp_ignored" => loc[t].tmp.set \cap {SIGKILL, SIGSTOP} = {}
            /\ (pc[t] = "run" /\ ret[t].op = "rt_sigpending")
                  => ret[t].out \cap {SIGKILL, SIGSTOP} = {})
    /\ [][\A t \in threads :
            /\ (InCall(t, "rt_sigpending") /\ pc'[t] = "sp_ignored")
                  => loc'[t].tmp.set =
                        {s \in AllSigs : /\ s \in SigsOf(thr_pending[t] \cup proc_pending)
                                         /\ s \in signal_mask[t]}
            /\ (pc[t] = "sp_ignored" /\ pc'[t] = "run")
                  => /\ ret'[t].ret = 0
                     /\ ret'[t].out \subseteq loc[t].tmp.set
                     /\ \A s \in ret'[t].out : actions[s].k_sa_handler # SIG_IGN
                     /\ (SigsOf(thr_pending[t] \cup proc_pending) \cap signal_mask[t]
                           = loc[t].tmp.set)
                          => ret'[t].out =
                                {s \in SigsOf(thr_pending[t] \cup proc_pending)
                                        \cap signal_mask[t] :
                                    actions[s].k_sa_handler # SIG_IGN}]_vars

\* rt_sigpending has reported signal 2 but not signal 1, which is pending,
\* blocked and ignored, nor SIGKILL, which is pending for the thread.
C16_Witness ==
    \E t \in threads :
        /\ pc[t] = "run"
        /\ ret[t].op = "rt_sigpending"
        /\ ret[t].ret = 0
        /\ ret[t].out = {NumUserSigs}
        /\ {1, SIGKILL} \subseteq SigsOf(thr_pending[t])
        /\ 1 \in signal_mask[t]
        /\ actions[1].k_sa_handler = SIG_IGN


(***************************************************************************)
(* SpecKill: thread 1 calls kill with every kind of pid and signal number  *)
(* and changes its mask; the other threads change their masks and take     *)
(* signals.                                                                *)
(***************************************************************************)
OtherPgid == OwnPgid + 1

KillPids == {INT_MIN, -OtherPgid, -OwnPgid, -1, 0, OwnPid, OtherPid}

KillSigs == {-1, 0, 1, SIGS_CNT, SIGS_CNT + 1}

KillMaskCalls ==
    {SigprocmaskCall(SIG_SETMASK, SetPtr(S), "null", SIGSET_SIZE) : S \in {{}, {1}}}

\* kill(pid, 1) whose walk_thread_list, if it is reached, fails.
KillWalkFails == {[KillCall(pid, 1, FALSE, 0) EXCEPT !.walk_ret = -EINVAL] :
                     pid \in {0, OwnPid}}

KillSenderCalls ==
    KillMaskCalls
    \cup {KillCall(pid, sig, FALSE, 0) : pid \in KillPids, sig \in KillSigs}
    \cup {KillCall(pid, 1, TRUE, 0) : pid \in {-OwnPgid, 0, OwnPid}}
    \cup {KillCall(pid, 1, FALSE, -ESRCH) : pid \in {-1, OtherPid}}
    \cup KillWalkFails

KillCalls(t) == IF t = 1 THEN KillSenderCalls ELSE KillMaskCalls

InitKill == InitProcess(NumThreads)

EnterKill(t) == Enter(t, KillCalls(t))

NextKill ==
    \E t \in Tids :
        \/ EnterKill(t)
        \/ libos_syscall_rt_sigprocmask(t)
        \/ kill_steps(t)
        \/ deliver(t)

SpecKill == InitKill /\ [][NextKill]_vars

IsKill(t) == pc[t] = "run" /\ ret[t].op = "kill"

\* The step of thread t that completes a kill routed without local delivery
\* changes no queue and no event.
KillTouchesNothing(t) ==
    /\ proc_pending' = proc_pending
    /\ thr_pending' = thr_pending
    /\ event' = event
    /\ ret'[t].queued = FALSE
    /\ ret'[t].woke = {}

\* C17 as the specification states it: kill fails with -EINVAL for a signal
\* number outside 0..SIGS_CNT and also for pid = INT_MIN.
C17_Original ==
    \A t \in threads :
        (IsKill(t) /\ (kill_sig_invalid(ret[t].sig) \/ ret[t].pid = INT_MIN))
            => ret[t].ret = -EINVAL

\* C17: kill fails with -EINVAL for a signal number outside 0..SIGS_CNT
\* (whatever the pid, INT_MIN included) and with -ESRCH for pid = INT_MIN
\* and a signal number in 0..SIGS_CNT; both failures queue nothing and make
\* no IPC call.
C17_KillArgumentErrors ==
    /\ [](\A t \in threads :
            IsKill(t) =>
               /\ kill_sig_invalid(ret[t].sig) => ret[t].ret = -EINVAL
               /\ (~kill_sig_invalid(ret[t].sig) /\ ret[t].pid = INT_MIN)
                     => ret[t].ret = -ESRCH
               /\ (kill_sig_invalid(ret[t].sig) \/ ret[t].pid = INT_MIN)
                     => ret[t].ipc = <<>> /\ ret[t].queued = FALSE)
    /\ [][\A t \in threads :
            (/\ InCall(t, "kill")
             /\ pc'[t] # pc[t]
             /\ (loc[t].a.sig < 0 \/ loc[t].a.sig > SIGS_CNT \/ loc[t].a.pid = INT_MIN))
                => (pc'[t] = "run" /\ KillTouchesNothing(t))]_vars

\* kill(INT_MIN, 1) has failed with -ESRCH while a signal was pending.
C17_Witness ==
    \E t \in threads :
        /\ IsKill(t)
        /\ ret[t].pid = INT_MIN
        /\ ret[t].sig = 1
        /\ ret[t].ret = -ESRCH
        /\ proc_pending # {}


\* The step of thread t that enters kill(pid, sig) is the start of
\* kill_current_proc for the record {sig, caller's pid, SI_USER}: nothing for
\* signal 0, the failure of append_signal, or the record appended
\* process-wide; no IPC call in any case.
KillDeliversLocally(t) ==
    LET a == loc[t].a
    IN  /\ thr_pending' = thr_pending
        /\ event' = event
        /\ IF a.sig = 0 \/ a.nomem
           THEN /\ pc'[t] = "run"
                /\ ret'[t].ret = (IF a.sig = 0 THEN 0 ELSE -ENOMEM)
                /\ ret'[t].ipc = <<>>
                /\ ret'[t].queued = FALSE
                /\ proc_pending' = proc_pending
           ELSE /\ pc'[t] = "kcp_check"
                /\ loc'[t].tmp.ipc = <<>>
                /\ proc_pending' =
                      queue_append_signal(proc_pending, SigInfo(a.sig, OwnPid, SI_USER))

\* A kill that was delivered locally has returned the result of
\* kill_current_proc and made no IPC call.
KillReturnedLocal(t) ==
    /\ ret[t].ipc = <<>>
    /\ ret[t].sender = OwnPid
    /\ ret[t].ret =
          (IF ret[t].sig = 0 THEN 0
           ELSE IF ret[t].nomem THEN -ENOMEM
           ELSE IF ret[t].walked /\ ret[t].walk_ret < 0 /\ ret[t].walk_ret # -ESRCH
                THEN ret[t].walk_ret
           ELSE 0)
    /\ ret[t].queued <=> (ret[t].sig # 0 /\ ~ret[t].nomem)
    /\ ret[t].walked => ret[t].queued
    /\ ret[t].woke # {} => (ret[t].walked /\ ret[t].ret = 0)

\* C18: kill(0, sig) and kill(-g, sig) with g the caller's own process group
\* behave as kill_current_proc with the caller as sender and SI_USER and
\* return its result; kill(-g, sig) with g > 1 another group returns -ENOSYS,
\* queues no signal and wakes no thread.
C18_ProcessGroupKill ==
    /\ [](\A t \in threads :
            (IsKill(t) /\ ~kill_sig_invalid(ret[t].sig)) =>
               /\ ret[t].pid \in {0, -OwnPgid} => KillReturnedLocal(t)
               /\ ret[t].pid = -OtherPgid
                     => /\ ret[t].ret = -ENOSYS
                        /\ ret[t].ipc = <<>>
                        /\ ret[t].queued = FALSE
                        /\ ret[t].woke = {})
    /\ [][\A t \in threads :
            (/\ InCall(t, "kill")
             /\ pc'[t] # pc[t]
             /\ loc[t].a.sig \in 0..SIGS_CNT) =>
               /\ loc[t].a.pid \in {0, -OwnPgid} => KillDeliversLocally(t)
               /\ loc[t].a.pid = -OtherPgid
                     => (pc'[t] = "run" /\ KillTouchesNothing(t))]_vars

\* kill(-g, 1) with g the caller's group has queued the signal with
\* the caller as sender and woken a thread.
C18_Witness ==
    \E t \in threads :
        /\ IsKill(t)
        /\ ret[t].pid = -OwnPgid
        /\ ret[t].sig = 1
        /\ ret[t].ret = 0
        /\ ret[t].woke # {}
        /\ SigInfo(1, OwnPid, SI_USER) \in proc_pending

\* C19: kill(pid, sig) with pid > 0 and sig in 0..SIGS_CNT: for the caller's
\* own pid it is local delivery without an IPC call; for another pid it makes
\* exactly one ipc_kill_process call for that pid, changes no pending store,
\* wakes no thread and returns the result of the call unchanged.
C19_KillPositivePid ==
    /\ [](\A t \in threads :
            (IsKill(t) /\ ~kill_sig_invalid(ret[t].sig) /\ ret[t].pid > 0) =>
               IF ret[t].pid = OwnPid
               THEN KillReturnedLocal(t)
               ELSE /\ ret[t].ipc = <<<<"ipc_kill_process", OwnPid, ret[t].pid, ret[t].sig>>>>
                    /\ ret[t].queued = FALSE
                    /\ ret[t].woke = {})
    /\ [][\A t \in threads :
            (/\ InCall(t, "kill")
             /\ pc'[t] # pc[t]
             /\ loc[t].a.sig \in 0..SIGS_CNT
             /\ loc[t].a.pid > 0) =>
               IF loc[t].a.pid = OwnPid
               THEN KillDeliversLocally(t)
               ELSE /\ pc'[t] = "run"
                    /\ KillTouchesNothing(t)
                    /\ ret'[t].ret = loc[t].a.ipc_ret]_vars

\* kill to another process has returned the failure of the IPC call while a
\* signal was pending locally.
C19_Witness ==
    \E t \in threads :
        /\ IsKill(t)
        /\ ret[t].pid = OtherPid
        /\ ret[t].sig = 1
        /\ ret[t].ret = -ESRCH
        /\ Len(ret[t].ipc) = 1
        /\ proc_pending # {}


(***************************************************************************)
(* SpecAll: thread 1 calls each of the nine syscalls, with arguments that  *)
(* succeed and arguments that fail each check, and with a resume, a walk   *)
(* and IPC calls that fail with -EINVAL or -ESRCH; the other threads post  *)
(* signals.                                                                *)
(***************************************************************************)
AllCallerCalls ==
         {SigactionCall(1, DispositionAct(SIG_IGN), "rw", SIGSET_SIZE),
          SigactionCall(SIGKILL, DispositionAct(SIG_DFL), "null", SIGSET_SIZE),
          SigprocmaskCall(SIG_SETMASK, SetPtr({}), "null", SIGSET_SIZE),
          SigprocmaskCall(SIG_SETMASK, SetPtr(UserSigs), "rw", SIGSET_SIZE),
          SigprocmaskCall(SIG_SETMASK, BadPtr, "null", SIGSET_SIZE),
          [op |-> "sigaltstack",
           ss |-> [p |-> "rw", v |-> [ss_sp |-> 4096, ss_size |-> MINSIGSTKSZ,
                                      ss_flags |-> {}]],
           oss |-> "rw", sp |-> 0],
          [op |-> "sigaltstack",
           ss |-> [p |-> "rw", v |-> [ss_sp |-> 4096, ss_size |-> MINSIGSTKSZ - 1,
                                      ss_flags |-> {}]],
           oss |-> "null", sp |-> 0],
          [op |-> "sigaltstack",
           ss |-> [p |-> "rw", v |-> [ss_sp |-> 8192, ss_size |-> MINSIGSTKSZ,
                                      ss_flags |-> {SS_ONSTACK}]],
           oss |-> "rw", sp |-> 0],
          [op |-> "sigaltstack",
           ss |-> [p |-> "rw", v |-> [ss_sp |-> 8192, ss_size |-> MINSIGSTKSZ,
                                      ss_flags |-> {}]],
           oss |-> "none", sp |-> 0],
          SigsuspendCall(SetPtr({}), SIGSET_SIZE),
          SigsuspendCall(SetPtr({}), SIGSET_SIZE - 4),
          TimedwaitCall(SetPtr(UserSigs), "rw", ValidTimeout, SIGSET_SIZE),
          TimedwaitCall(SetPtr({1}), "null", NoTimeout, SIGSET_SIZE),
          TimedwaitCall(BadPtr, "rw", NoTimeout, SIGSET_SIZE),
          SigpendingCall("rw", SIGSET_SIZE),
          SigpendingCall("none", SIGSET_SIZE),
          KillCall(OwnPid, 1, FALSE, 0),
          [KillCall(OwnPid, 1, FALSE, 0) EXCEPT !.walk_ret = -EINVAL],
          KillCall(OtherPid, 1, FALSE, -ESRCH),
          KillCall(0, SIGS_CNT + 1, FALSE, 0),
          TkillCall(1, 1, FALSE, -EINVAL),
          TkillCall(0, 1, FALSE, 0),
          TkillCall(NumThreads, SIGS_CNT + 1, FALSE, 0),
          TgkillCall(OwnPid, NumThreads, 1, FALSE, -ESRCH, 0),
          TgkillCall(OwnPid, NumThreads, 1, FALSE, -EINVAL, 0),
          TgkillCall(0, NumThreads, 1, FALSE, 0, 0),
          TgkillCall(OwnPid, NumThreads, -1, FALSE, 0, 0),
          TgkillCall(OtherPid, 1, 1, FALSE, 0, -EINVAL)}

\* The other threads post each signal to thread 1; the resume of thread 1
\* fails with -EINVAL for signal 1.
AllPosterCalls ==
    {TkillCall(1, s, FALSE, IF s = 1 THEN -EINVAL ELSE 0) : s \in UserSigs}

AllCalls(t) == IF t = 1 THEN AllCallerCalls ELSE AllPosterCalls

InitAll ==
    /\ threads = Tids
    /\ signal_mask = [t \in Tids |-> IF t = 1 THEN {} ELSE UserSigs]
    /\ signal_altstack = [t \in Tids |-> NoStack]
    /\ actions = [s \in AllSigs |-> DefaultAction]
    /\ disp_lock = 0
    /\ proc_pending = {}
    /\ thr_pending = [t \in Tids |-> {}]
    /\ event = [t \in Tids |-> FALSE]
    /\ ref_count = [t \in Tids |-> 1]
    /\ pc = [t \in Tids |-> "run"]
    /\ loc = [t \in Tids |-> NoLoc]
    /\ ret = [t \in Tids |-> NoCall]

EnterAll(t) == Enter(t, AllCalls(t))

NextAll ==
    \E t \in Tids :
        \/ EnterAll(t)
        \/ rt_sigaction_steps(t)
        \/ libos_syscall_rt_sigprocmask(t)
        \/ libos_syscall_sigaltstack(t)
        \/ rt_sigsuspend_steps(t)
        \/ rt_sigtimedwait_steps(t)
        \/ libos_syscall_rt_sigpending(t)
        \/ rt_sigpending_ignored(t)
        \/ kill_steps(t)
        \/ kill_thread_steps(t)
        \/ deliver(t)

SpecAll == InitAll /\ [][NextAll]_vars

SignalSyscalls ==
    {"rt_sigaction", "rt_sigprocmask", "sigaltstack", "rt_sigsuspend",
     "rt_sigtimedwait", "rt_sigpending", "kill", "tkill", "tgkill"}

Returned(t) == pc[t] = "run" /\ ret[t].op \in SignalSyscalls

\* C20 as the specification states it: every syscall of the subsystem
\* returns zero or a negative value.
C20_Original ==
    \A t \in threads : Returned(t) => ret[t].ret <= 0

\* C20: rt_sigaction, rt_sigprocmask, sigaltstack, rt_sigsuspend,
\* rt_sigpending, kill, tkill and tgkill return zero or a negative error;
\* rt_sigtimedwait never returns zero: it returns a negative error or the
\* positive number of the signal it consumed, a member of the waited set.
C20_ReturnValues ==
    \A t \in threads :
        Returned(t) =>
            IF ret[t].op = "rt_sigtimedwait"
            THEN \/ ret[t].ret < 0
                 \/ /\ ret[t].ret \in AllSigs
                    /\ ret[t].ret \in ret[t].set.v
            ELSE ret[t].ret <= 0

\* rt_sigtimedwait has returned the number of the signal that a tkill of
\* another thread posted.
C20_Witness ==
    /\ \E t \in threads :
          /\ Returned(t)
          /\ ret[t].op = "rt_sigtimedwait"
          /\ ret[t].ret = NumUserSigs
    /\ \E u \in threads : Returned(u) /\ ret[u].op = "tkill" /\ ret[u].ret = 0


ValidatedSyscalls ==
    {"rt_sigaction", "rt_sigprocmask", "sigaltstack", "rt_sigtimedwait",
     "rt_sigpending", "kill", "tkill", "tgkill"}

\* The step of thread t is a return of -EINVAL or -EFAULT by one of the
\* eight handlers.
ReturnsInvalOrFault(t) ==
    /\ pc[t] # "run"
    /\ pc'[t] = "run"
    /\ loc[t].op \in ValidatedSyscalls
    /\ ret'[t].ret \in {-EINVAL, -EFAULT}

\* The return is made by the first step of the handler, and that step
\* changes neither the disposition table, nor a mask or alternate-stack
\* descriptor, nor a pending store, and wakes no thread.
ReturnsBeforeMutation(t) ==
    /\ pc[t] = "enter"
    /\ actions' = actions
    /\ signal_mask' = signal_mask
    /\ signal_altstack' = signal_altstack
    /\ proc_pending' = proc_pending
    /\ thr_pending' = thr_pending
    /\ event' = event

\* do_kill_thread 454-460: tkill or tgkill returns what the resume of the
\* target, a thread other than the caller, gave, after the record was
\* appended and the target woken.
ReturnsResumeFailure(t) ==
    /\ loc[t].op \in {"tkill", "tgkill"}
    /\ loc[t].a.tgid = OwnPid
    /\ loc[t].a.tid \in threads \ {t}
    /\ ~kill_sig_invalid(loc[t].a.sig)
    /\ loc[t].a.sig # 0
    /\ ret'[t].ret = loc[t].a.resume_ret
    /\ ret'[t].queued
    /\ ret'[t].woke = {loc[t].a.tid}
    /\ ret'[t].resumed = {loc[t].a.tid}

\* kill_current_proc 345-349: kill returns what the failing walk gave, after
\* the record was appended process-wide; the walk woke nobody.
ReturnsWalkFailure(t) ==
    /\ loc[t].op = "kill"
    /\ ~kill_sig_invalid(loc[t].a.sig)
    /\ loc[t].a.sig # 0
    /\ ret'[t].ret = loc[t].a.walk_ret
    /\ ret'[t].queued
    /\ ret'[t].walked
    /\ ret'[t].woke = {}
    /\ event' = event

C22_Original ==
    [][\A t \in threads :
          (/\ InCall(t, "rt_sigprocmask")
           /\ pc'[t] # pc[t]
           /\ loc[t].a.sigsetsize = SIGSET_SIZE
           /\ loc[t].a.how \in {SIG_BLOCK, SIG_UNBLOCK, SIG_SETMASK}
           /\ \/ loc[t].a.set.p # "null" /\ ~is_user_memory_readable(loc[t].a.set.p)
              \/ loc[t].a.oldset # "null" /\ ~is_user_memory_writable(loc[t].a.oldset))
             => /\ pc'[t] = "run"
                /\ ret'[t].ret = -EFAULT
                /\ ret'[t].wrote = FALSE
                /\ signal_mask'[t] = signal_mask[t]]_vars

\* rt_sigprocmask has taken a memory fault on the store through an oldset
\* that is readable but not writable.
C22_Witness ==
    \E t \in threads :
        /\ pc[t] = "fault"
        /\ ret[t].op = "fault"
        /\ ret[t].in = "rt_sigprocmask"


(***************************************************************************)
(* SpecWalk: thread 1 posts signal 1 to its own process with kill; the IPC *)
(* worker, an internal thread that is not on the thread list, calls        *)
(* do_kill_proc and do_kill_pgroup for another process; the threads of the *)
(* process block and unblock the signal and take it when they can.         *)
(***************************************************************************)
WalkTids == 1..(NumThreads + 1)

WalkSenderCalls ==
    KillMaskCalls
    \cup {KillCall(OwnPid, 1, nomem, 0) : nomem \in BOOLEAN}
    \cup {KillCall(0, 0, FALSE, 0)}
    \cup {[KillCall(OwnPid, 1, FALSE, 0) EXCEPT !.walk_ret = -EINVAL]}

WalkWorkerCalls ==
    {DoKillCall("do_kill_proc", OtherPid, OwnPid, 1, 0, walk_ret) :
        walk_ret \in {0, -EINVAL}}
    \cup {DoKillCall("do_kill_proc", OtherPid, OtherPid, 1, -ESRCH, 0)}
    \cup {DoKillCall("do_kill_pgroup", OtherPid, pgid, 1, 0, 0) :
            pgid \in {0, OtherPgid}}

WalkCalls(t) == IF t = 1 THEN WalkSenderCalls ELSE KillMaskCalls

InitWalk ==
    /\ threads = Tids
    /\ signal_mask = [t \in WalkTids |-> {}]
    /\ signal_altstack = [t \in WalkTids |-> NoStack]
    /\ actions = [s \in AllSigs |-> DefaultAction]
    /\ disp_lock = 0
    /\ proc_pending = {}
    /\ thr_pending = [t \in WalkTids |-> {}]
    /\ event = [t \in WalkTids |-> FALSE]
    /\ ref_count = [t \in WalkTids |-> IF t \in Tids THEN 1 ELSE 0]
    /\ pc = [t \in WalkTids |-> "run"]
    /\ loc = [t \in WalkTids |-> NoLoc]
    /\ ret = [t \in WalkTids |-> NoCall]

NextWalk ==
    \E t \in WalkTids :
        \/ Enter(t, WalkCalls(t))
        \/ EnterWorker(t, WalkWorkerCalls)
        \/ libos_syscall_rt_sigprocmask(t)
        \/ kill_steps(t)
        \/ do_kill_proc(t)
        \/ do_kill_pgroup(t)
        \/ deliver(t)

SpecWalk == InitWalk /\ [][NextWalk]_vars

\* The operations that reach kill_current_proc.
IsKillProcOp(op) == op \in {"kill", "do_kill_proc", "do_kill_pgroup"}

\* The threads whose event the step sets.
NewlyWoken == {u \in threads : event'[u] /\ ~event[u]}

\* C23: kill_current_proc with a non-zero signal appends the signal to the
\* process-wide store in its first step, before the caller's mask or any
\* other mask is examined; a caller that is not internal and does not block
\* the signal returns 0 and wakes nobody; every other caller makes one walk,
\* which wakes exactly one of the other threads that do not block the
\* signal, or nobody when each of them blocks it, and returns 0 with the
\* signal left pending; a walk that fails wakes nobody and its error is
\* returned, the signal left pending.
C23_OneShotWake ==
    /\ [](\A t \in Callers :
            /\ (IsKillProcOp(loc[t].op) /\ pc[t] \in {"kcp_check", "kcp_walk"})
                  => /\ loc[t].tmp.queued
                     /\ loc[t].tmp.woke = {}
            /\ (pc[t] = "run" /\ IsKillProcOp(ret[t].op))
                  => Cardinality(ret[t].woke) <= 1)
    /\ [][\A t \in Callers :
            /\ (pc[t] = "enter" /\ IsKillProcOp(loc[t].op)
                /\ pc'[t] = "kcp_check")
                  => /\ proc_pending' =
                           queue_append_signal(proc_pending,
                               SigInfo(loc[t].a.sig, loc[t].a.sender, SI_USER))
                     /\ loc[t].a.sig # 0
                     /\ NewlyWoken = {}
            /\ (pc[t] = "kcp_check" /\ pc'[t] # "kcp_check")
                  => /\ NewlyWoken = {}
                     /\ proc_pending' = proc_pending
                     /\ IF \/ loc[t].a.internal
                           \/ __sigismember(signal_mask[t], loc[t].a.sig)
                        THEN pc'[t] = "kcp_walk"
                        ELSE /\ pc'[t] = "run"
                             /\ ret'[t].ret = 0
                             /\ ret'[t].woke = {}
            /\ (pc[t] = "kcp_walk" /\ pc'[t] # "kcp_walk")
                  => /\ pc'[t] = "run"
                     /\ proc_pending' = proc_pending
                     /\ NewlyWoken \subseteq ret'[t].woke
                     /\ \A u \in threads \ ret'[t].woke : event'[u] = event[u]
                     /\ \A u \in ret'[t].woke :
                           /\ event'[u]
                           /\ u # t
                           /\ ~__sigismember(signal_mask[u], loc[t].a.sig)
                     /\ IF loc[t].a.walk_ret < 0
                        THEN /\ ret'[t].woke = {}
                             /\ ret'[t].ret = loc[t].a.walk_ret
                        ELSE /\ ret'[t].ret = 0
                             /\ Cardinality(ret'[t].woke) =
                                   (IF \A u \in threads \ {t} :
                                          __sigismember(signal_mask[u], loc[t].a.sig)
                                    THEN 0 ELSE 1)]_vars

\* The IPC worker has posted signal 1 for another process and woken one
\* thread while two threads did not block it.
C23_Witness ==
    /\ pc[IpcWorker] = "run"
    /\ ret[IpcWorker].op = "do_kill_proc"
    /\ ret[IpcWorker].internal
    /\ ret[IpcWorker].ret = 0
    /\ Cardinality(ret[IpcWorker].woke) = 1
    /\ Cardinality({u \in threads :
                       ~__sigismember(signal_mask[u], ret[IpcWorker].sig)}) >= 2
    /\ SigInfo(ret[IpcWorker].sig, OtherPid, SI_USER) \in proc_pending


(***************************************************************************)
(* SpecRace: every thread blocks signal 1 and makes one call: the last     *)
(* thread posts one instance of the signal to the process, each other      *)
(* thread waits for it in rt_sigtimedwait.                                 *)
(***************************************************************************)
RaceSenderCalls == {KillCall(OwnPid, 1, FALSE, 0)}

RaceWaiterCalls ==
    {TimedwaitCall(SetPtr({1}), "rw", tm, SIGSET_SIZE) :
        tm \in {NoTimeout, ValidTimeout}}

RaceCalls(t) ==
    IF ret[t] # NoCall THEN {}
    ELSE IF t = NumThreads + 1 THEN RaceSenderCalls
    ELSE RaceWaiterCalls

InitRace ==
    /\ threads = WalkTids
    /\ signal_mask = [t \in WalkTids |-> {1}]
    /\ signal_altstack = [t \in WalkTids |-> NoStack]
    /\ actions = [s \in AllSigs |-> DefaultAction]
    /\ disp_lock = 0
    /\ proc_pending = {}
    /\ thr_pending = [t \in WalkTids |-> {}]
    /\ event = [t \in WalkTids |-> FALSE]
    /\ ref_count = [t \in WalkTids |-> 1]
    /\ pc = [t \in WalkTids |-> "run"]
    /\ loc = [t \in WalkTids |-> NoLoc]
    /\ ret = [t \in WalkTids |-> NoCall]

NextRace ==
    \E t \in WalkTids :
        \/ Enter(t, RaceCalls(t))
        \/ rt_sigtimedwait_steps(t)
        \/ kill_steps(t)

SpecRace == InitRace /\ [][NextRace]_vars

TimedwaitReturned(t) == pc[t] = "run" /\ ret[t].op = "rt_sigtimedwait"

\* C24: with one instance of signal 1 posted and the other threads each in
\* one rt_sigtimedwait on {1}, at most one of the calls returns 1, and then
\* the signal is no longer pending; every other call returns -EINTR or
\* -EAGAIN and has written nothing through info.
C24_NoDoubleDelivery ==
    /\ \A a, b \in threads :
          (a # b /\ TimedwaitReturned(a) /\ TimedwaitReturned(b))
             => ~(ret[a].ret = 1 /\ ret[b].ret = 1)
    /\ \A a \in threads :
          TimedwaitReturned(a)
             => \/ /\ ret[a].ret = 1
                   /\ ret[a].wrote
                   /\ ret[a].info_out = SigInfo(1, OwnPid, SI_USER)
                   /\ 1 \notin get_all_pending_signals(a)
                \/ /\ ret[a].ret \in {-EINTR, -EAGAIN}
                   /\ ~ret[a].wrote
                   /\ ret[a].info_out = NoInfo

\* One call has returned the signal; another, without a timeout, saw it
\* pending and returned -EINTR with nothing written.
C24_Witness ==
    \E a, b \in threads :
        /\ TimedwaitReturned(a)
        /\ ret[a].ret = 1
        /\ TimedwaitReturned(b)
        /\ ret[b].ret = -EINTR
        /\ ret[b].timeout = NoTimeout
        /\ ~ret[b].wrote
        /\ proc_pending = {}


(***************************************************************************)
(* SpecLock: the lock events of the handlers.  A path is the sequence of   *)
(* lock, unlock, IPC, wait, return and fault events of one way through a   *)
(* handler; the element "waits" of a path is a loop around thread_wait and *)
(* stands for any number of "wait" events, none included.  A thread        *)
(* executes the events of its path one at a time, and lock() on the        *)
(* dispositions lock proceeds only when nobody holds it.  A thread lock is *)
(* taken only by its own thread; g_process_id_lock is read-locked.         *)
(***************************************************************************)

\* rt_sigprocmask: the argument errors; else cur->lock around the read and
\* the change of the mask.  The store *oldset = old is made with the lock
\* held, and it faults when oldset is readable but not writable.
rt_sigprocmask_locks ==
    {<<"ret">>, <<"lock_thread", "unlock_thread", "ret">>,
     <<"lock_thread", "fault">>}

\* rt_sigsuspend: the error of set_user_sigmask; else the loop, which calls
\* thread_wait for as long as no signal is pending and the wait returns 0 or
\* -EINTR.  No lock is taken.
rt_sigsuspend_locks == {<<"ret">>, <<"waits", "ret">>}

\* rt_sigtimedwait: the argument errors; else current->lock around the
\* temporary mask, the loop, which calls thread_wait for as long as no signal
\* is pending and the wait does not time out, and current->lock around the
\* restore.
rt_sigtimedwait_locks ==
    {<<"ret">>,
     <<"lock_thread", "unlock_thread", "waits", "lock_thread", "unlock_thread",
       "ret">>}

rt_sigpending_locks_early_return ==
    {<<"ret">>, <<"lock_thread", "unlock_thread", "lock_disp", "ret">>}

\* rt_sigpending: the argument errors; else current->lock around the mask,
\* then signal_dispositions->lock around the loop over the table.
rt_sigpending_locks ==
    {<<"ret">>,
     <<"lock_thread", "unlock_thread", "lock_disp", "unlock_disp", "ret">>}

\* kill_current_proc: signal 0, a failed append or an internal caller; else
\* current->lock around the test of the mask, released before the return and
\* before the walk over the threads.
kill_current_proc_locks ==
    {<<"ret">>, <<"lock_thread", "unlock_thread", "ret">>}

\* do_kill_proc: the IPC call for another process, else kill_current_proc.
do_kill_proc_locks == {<<"ipc", "ret">>} \cup kill_current_proc_locks

\* do_kill_pgroup: g_process_id_lock around the read of the group, then
\* -ENOSYS or kill_current_proc.
do_kill_pgroup_locks ==
    {<<"lock_pid", "unlock_pid", "ret">>}
    \cup {<<"lock_pid", "unlock_pid">> \o p : p \in kill_current_proc_locks}

\* do_kill_thread: the IPC call for another process; no lock otherwise.
do_kill_thread_locks == {<<"ret">>, <<"ipc", "ret">>}

\* kill: the argument errors, ipc_kill_all, do_kill_proc or do_kill_pgroup.
kill_locks ==
    {<<"ret">>, <<"ipc", "ret">>} \cup do_kill_proc_locks \cup do_kill_pgroup_locks

\* The handlers of SpecLock: the syscalls, rt_sigreturn and the functions
\* the IPC worker calls.
LockHandlers ==
    SignalSyscalls
    \cup {"rt_sigreturn", "do_kill_proc", "do_kill_pgroup", "do_kill_thread"}

\* The paths of each handler.
LockPaths(name) ==
    CASE name = "rt_sigaction" ->
            {<<"ret">>, <<"lock_disp", "unlock_disp", "ret">>}
      [] name = "rt_sigreturn" -> {<<"lock_thread", "unlock_thread", "ret">>}
      [] name = "rt_sigprocmask" -> rt_sigprocmask_locks
      [] name = "sigaltstack" -> {<<"ret">>}
      [] name = "rt_sigsuspend" -> rt_sigsuspend_locks
      [] name = "rt_sigtimedwait" -> rt_sigtimedwait_locks
      [] name = "rt_sigpending" -> rt_sigpending_locks
      [] name = "kill" -> kill_locks
      [] name = "do_kill_proc" -> do_kill_proc_locks
      [] name = "do_kill_pgroup" -> do_kill_pgroup_locks
      [] name = "tkill" -> {<<"ret">>}
      [] name = "tgkill" -> do_kill_thread_locks
      [] name = "do_kill_thread" -> do_kill_thread_locks

LockCalls ==
    UNION {{[op |-> "locks", name |-> n, path |-> p] : p \in LockPaths(n)} :
             n \in LockHandlers}

\* The event sequence s is one way through path p: each "waits" of p is
\* replaced by zero or more "wait" events.
RECURSIVE path_accepts(_, _)
path_accepts(p, s) ==
    IF p = <<>> THEN s = <<>>
    ELSE IF Head(p) = "waits"
         THEN \/ path_accepts(Tail(p), s)
              \/ (s # <<>> /\ Head(s) = "wait" /\ path_accepts(p, Tail(s)))
    ELSE s # <<>> /\ Head(s) = Head(p) /\ path_accepts(Tail(p), Tail(s))

\* The events a thread can execute next with rest left of its path, each
\* with what is left after it: at a loop, one more wait (the loop stays) or
\* the event after the loop.
lock_choices(rest) ==
    IF Head(rest) = "waits"
    THEN {[e |-> "wait", rest |-> rest],
          [e |-> Head(Tail(rest)), rest |-> Tail(Tail(rest))]}
    ELSE {[e |-> Head(rest), rest |-> Tail(rest)]}

\* The locks held after event e.
held_after(held, e) ==
    CASE e = "lock_thread" -> held \cup {"thread"}
      [] e = "unlock_thread" -> held \ {"thread"}
      [] e = "lock_disp" -> held \cup {"disp"}
      [] e = "unlock_disp" -> held \ {"disp"}
      [] e = "lock_pid" -> held \cup {"pid"}
      [] e = "unlock_pid" -> held \ {"pid"}
      [] OTHER -> held

\* What thread t has left of its path, and the last event it executed.
LockState(t) ==
    IF pc[t] = "enter"
    THEN [k |-> "lk", rest |-> loc[t].a.path, held |-> {}, last |-> "none"]
    ELSE loc[t].tmp

\* Thread t executes the next event of its path.
lock_step(t) ==
    /\ t \in threads
    /\ pc[t] \in {"enter", "lk"}
    /\ loc[t].op = "locks"
    /\ \E c \in lock_choices(LockState(t).rest) :
       LET st == LockState(t)
           e == c.e
       IN  /\ e = "lock_disp" => lock_available(disp_lock)
           /\ disp_lock' = (CASE e = "lock_disp" -> t
                              [] e = "unlock_disp" -> 0
                              [] OTHER -> disp_lock)
           /\ IF e = "ret"
              THEN Return(t, [op |-> "locks", name |-> loc[t].a.name, ret |-> 0,
                              held |-> st.held])
              ELSE IF e = "fault"
              THEN Fault(t, [op |-> "fault", in |-> loc[t].a.name,
                             held |-> st.held])
              ELSE /\ pc' = [pc EXCEPT ![t] = "lk"]
                   /\ loc' = [loc EXCEPT ![t].tmp =
                                 [k |-> "lk", rest |-> c.rest,
                                  held |-> held_after(st.held, e), last |-> e]]
                   /\ UNCHANGED ret
    /\ UNCHANGED <<threads, signal_mask, signal_altstack, actions, proc_pending,
                   thr_pending, event, ref_count>>

InitLock == InitProcess(NumThreads)

NextLock == \E t \in Tids : Enter(t, LockCalls) \/ lock_step(t)

SpecLock == InitLock /\ [][NextLock]_vars

InLockPath(t) == pc[t] \in {"enter", "lk"}

\* Thread t is at lock() on the dispositions lock and another thread holds it.
LockBlocked(t) ==
    /\ InLockPath(t)
    /\ Head(LockState(t).rest) = "lock_disp"
    /\ ~lock_available(disp_lock)

\* C25: no thread holds a thread lock, the dispositions lock or the
\* process-id lock while an IPC call or a wait is in progress; no thread
\* takes a thread lock while it holds the dispositions lock; a returning
\* thread holds no lock; a thread that faulted instead of returning holds
\* its own thread lock only, which no other thread takes; and whenever
\* threads are inside handlers, one of them can take its next step (no
\* deadlock on these locks).
C25_LockDiscipline ==
    /\ \A t \in threads :
          /\ InLockPath(t) =>
                /\ (Head(LockState(t).rest) \in {"ipc", "waits"}
                    \/ LockState(t).last \in {"ipc", "wait"})
                      => LockState(t).held = {}
                /\ Head(LockState(t).rest) = "lock_thread"
                      => "disp" \notin LockState(t).held
                /\ "disp" \in LockState(t).held <=> disp_lock = t
          /\ (pc[t] = "run" /\ ret[t].op = "locks")
                => (ret[t].held = {} /\ disp_lock # t)
          /\ pc[t] = "fault"
                => (ret[t].held = {"thread"} /\ disp_lock # t)
    /\ (\E t \in threads : InLockPath(t))
          => \E t \in threads : InLockPath(t) /\ ~LockBlocked(t)

\* One thread is in an IPC call of kill while another holds the dispositions
\* lock in rt_sigpending.
C25_Witness ==
    \E t, u \in threads :
        /\ pc[t] = "lk"
        /\ loc[t].a.name = "kill"
        /\ loc[t].tmp.last = "ipc"
        /\ pc[u] = "lk"
        /\ loc[u].a.name = "rt_sigpending"
        /\ disp_lock = u


\* The threads that are inside do_kill_thread with target u found and not yet
\* released.
PinnedBy(u) ==
    {t \in Callers : /\ IsKillThread(loc[t].op)
                     /\ pc[t] \in {"kt_found", "kt_wake", "kt_put"}
                     /\ loc[t].a.tid = u}

\* C26: the reference count of a thread is its count outside do_kill_thread
\* plus one for each call of do_kill_thread that has found it and not yet
\* returned: the lookup takes one reference, every return after a successful
\* lookup (probe, failed append, post to self, post to another thread, resume
\* failure) releases exactly one, in the returning step, and the count stays
\* at least 1 during the append, wake and resume steps.
C26_ReferencePinned ==
    /\ [](\A u \in threads :
            /\ ref_count[u] = 1 + Cardinality(PinnedBy(u))
            /\ ref_count[u] >= 1)
    /\ [][\A t \in Callers :
            (IsKillThread(loc[t].op) /\ pc'[t] # pc[t]) =>
               /\ (pc[t] = "enter" /\ pc'[t] = "kt_found")
                     => ref_count' = [ref_count EXCEPT ![loc[t].a.tid] = @ + 1]
               /\ (pc[t] = "enter" /\ pc'[t] = "run") => ref_count' = ref_count
               /\ (pc[t] \in {"kt_found", "kt_wake", "kt_put"} /\ pc'[t] = "run")
                     => ref_count' = [ref_count EXCEPT ![loc[t].a.tid] = @ - 1]
               /\ (pc[t] # "enter" /\ pc'[t] # "run") => ref_count' = ref_count]_vars

\* A tkill whose resume failed has returned and released its reference
\* while another call still pins the same target.
C26_Witness ==
    \E t, u \in threads :
        /\ pc[t] = "run"
        /\ IsKillThread(ret[t].op)
        /\ ret[t].tid = u
        /\ ret[t].resumed = {u}
        /\ ret[t].ret < 0
        /\ PinnedBy(u) # {}
        /\ ref_count[u] = 2


\* The call in progress of thread t is a tkill or tgkill of a non-zero signal
\* whose target was found in this process.
KillThreadPosting(t) ==
    /\ IsKillThread(loc[t].op)
    /\ pc[t] \in {"kt_found", "kt_wake", "kt_put"}
    /\ ~IsProbe(loc[t].a)

\* C27: a tkill or tgkill of a non-zero signal to an existing thread of this
\* process, when append_signal succeeds, leaves the signal pending in the
\* target's store, a new record carrying the sender's pid and SI_TKILL.  If
\* the target is another thread the call then sets the target's event and
\* resumes it, and returns what the resume returned; if the target is the
\* caller the call returns 0 with no event set and no resume.
C27_PostWakeResume ==
    /\ [](\A t \in Callers :
            (pc[t] = "run" /\ IsKillThread(ret[t].op) /\ ret[t].queued) =>
                /\ (ret[t].tid # t <=> ret[t].woke = {ret[t].tid})
                /\ (ret[t].tid # t <=> ret[t].resumed = {ret[t].tid})
                /\ (ret[t].tid = t => /\ ret[t].woke = {}
                                      /\ ret[t].resumed = {}
                                      /\ ret[t].ret = 0))
    /\ [][\A t \in Callers :
            (KillThreadPosting(t) /\ pc'[t] # pc[t]) =>
               LET a == loc[t].a
                   info == SigInfo(a.sig, a.sender, SI_TKILL)
               IN  /\ (pc[t] = "kt_found" /\ ~a.nomem) =>
                          /\ a.sig \in SigsOf(thr_pending'[a.tid])
                          /\ thr_pending'[a.tid] \in
                                 {thr_pending[a.tid], thr_pending[a.tid] \cup {info}}
                          /\ \A u \in threads \ {a.tid} :
                                 thr_pending'[u] = thr_pending[u]
                          /\ proc_pending' = proc_pending
                          /\ event' = event
                          /\ IF a.tid # t
                             THEN pc'[t] = "kt_wake"
                             ELSE pc'[t] = "run" /\ ret'[t].ret = 0 /\ ret'[t].queued
                   /\ pc[t] = "kt_wake" =>
                          /\ a.tid # t
                          /\ event' = [event EXCEPT ![a.tid] = TRUE]
                          /\ loc'[t].tmp.resumed = {a.tid}
                          /\ pc'[t] = "kt_put"
                   /\ pc[t] = "kt_put" =>
                          /\ pc'[t] = "run"
                          /\ ret'[t].ret = a.resume_ret
                          /\ ret'[t].queued
                          /\ event' = event]_vars

\* One tkill posted to another thread, whose resume failed, one posted to
\* its caller and one post of the IPC worker for another process have all
\* returned.
C27_Witness ==
    \E t, u \in threads :
        /\ pc[IpcWorker] = "run"
        /\ ret[IpcWorker].op = "do_kill_thread"
        /\ ret[IpcWorker].sender = OtherPid
        /\ ret[IpcWorker].queued
        /\ ret[IpcWorker].woke = {ret[IpcWorker].tid}
        /\ ret[IpcWorker].ret = 0
        /\ pc[t] = "run" /\ pc[u] = "run"
        /\ IsKillThread(ret[t].op) /\ IsKillThread(ret[u].op)
        /\ ret[t].queued /\ ret[t].tid = u /\ t # u
        /\ ret[t].ret = -EINVAL /\ ret[t].resumed = {u}
        /\ ret[u].queued /\ ret[u].tid = u
        /\ ret[u].ret = 0 /\ ret[u].woke = {}


\* Thread t is inside rt_sigtimedwait with its temporary mask installed.
TimedwaitMasked(t) ==
    /\ loc[t].op = "rt_sigtimedwait"
    /\ pc[t] \in {"tw_prepare", "tw_check", "tw_wait", "tw_pop", "tw_restore"}

\* C28 as stated: while a thread waits in rt_sigtimedwait with target set S,
\* the catchable signals its temporary mask does not block are exactly those
\* of S (without SIGKILL and SIGSTOP), whatever its prior mask.
C28_Original ==
    \A t \in threads :
        TimedwaitMasked(t) =>
            __signotset(__signotset(AllSigs, IllegalSigs), signal_mask[t])
                = clear_illegal_signals(loc[t].a.set.v)

\* C28: while a thread waits in rt_sigtimedwait with target set S, its
\* temporary mask is its prior mask without the signals of S (S without
\* SIGKILL and SIGSTOP): no signal of S is blocked, and a signal outside S
\* is blocked exactly when the prior mask blocked it.
C28_TempMaskIsPriorMinusTarget ==
    \A t \in threads :
        TimedwaitMasked(t) =>
            LET S == clear_illegal_signals(loc[t].a.set.v)
                prior == loc[t].tmp.entry
            IN  /\ signal_mask[t] = prior \ S
                /\ \A s \in S : ~__sigismember(signal_mask[t], s)
                /\ \A s \in AllSigs \ S :
                       __sigismember(signal_mask[t], s) <=> __sigismember(prior, s)

\* A thread whose mask blocked the signals 1..NumUserSigs sleeps in
\* rt_sigtimedwait on {1}: signal 1 is unblocked, the other signals of its
\* mask stay blocked and every signal its mask left open is still open.
C28_Witness ==
    \E t \in threads :
        /\ TimedwaitMasked(t)
        /\ pc[t] = "tw_wait"
        /\ loc[t].a.set.v = {1}
        /\ loc[t].tmp.entry = UserSigs
        /\ signal_mask[t] = UserSigs \ {1}
        /\ signal_mask[t] # {}

=============================================================================
